---- MODULE Spec2Model ----
(***************************************************************************)
(* SonicLink: Huffman compressor, hybrid envelope, OFDM modem with its FEC *)
(* wrapper, the send/receive pipelines and the audio manager.              *)
(*                                                                         *)
(* Bytes are the integers 0..255, byte strings are sequences of bytes.     *)
(* A Python value that may be None is a record [kind, val] with            *)
(* kind \in {"bytes", "None"}.                                            *)
(***************************************************************************)
EXTENDS Integers, Sequences, FiniteSets, TLC

VARIABLES
    \* ---- HuffmanCompressor (compression.py) ----
    hPc,                \* "start" | "compressed" | "decompressed"
    hData,              \* the bytes handed to compress
    hCompressed,        \* what compress returned
    hResult,            \* what decompress returned
    compression_stats,  \* HuffmanCompressor.compression_stats (sizes only)
    hArg,               \* argument of the compressor's last call
    hCalls,             \* calls made on the compressor so far
    \* ---- CryptoManager (encryption.py) ----
    cPc,                \* "start" | "encrypted" | "decrypted"
    cPlain,             \* the plaintext handed to encrypt
    cPub,               \* key pair whose public key encrypt is given
    cPriv,              \* key pair whose private key decrypt is given
    cAesKey,            \* aes_key drawn by encrypt
    cIv,                \* iv drawn by encrypt
    cEncrypted,         \* what encrypt returned
    cDecrypted,         \* what decrypt returned
    cTamper,            \* what was done to the envelope on its way to decrypt
    \* ---- AudioManager (audio.py) ----
    pyaudio_terminations, \* calls of self.pyaudio.terminate() so far
    streams,            \* every stream pyaudio.open returned, by handle
    input_stream,       \* handle, 0 is None
    output_stream,      \* handle, 0 is None
    is_listening,
    listening_thread,   \* worker id, 0 is None
    callback_queue,
    audio_buffer,       \* list of chunks (chunk ids)
    buffer_lock,        \* 0 free, -1 the stream's thread, or the worker holding it
    workers,            \* threads started on _listening_worker
    acPc,               \* position of the stream's thread in _audio_callback
    acChunk,            \* the chunk _audio_callback is handling
    mPc,                \* position of the calling thread inside the API
    mIn,                \* API call the calling thread is in
    nextChunk,          \* chunks the input device has produced so far, plus 1
    nextCb,             \* callbacks registered so far, plus 1
    drains,             \* drain events so far
    cbLog,              \* invocations of the registered callback, in order
    evicted,            \* chunks dropped by the 5 second cap
    lastRet,            \* the last API call that returned, and its result
    apiCalls,           \* API calls made so far
    faults,             \* device errors raised so far
    rxFrames,           \* chunks the last receive read and kept
    rxReads,            \* chunks the last receive read
    rxRun,              \* what the device delivered to the last receive, and
                        \* why its loop ended
    txWritten,          \* chunks the last transmit wrote
    \* ---- SonicLinkSender / SonicLinkReceiver (core.py) ----
    pPc,                \* position inside send_data / receive_data
    pOpts,              \* the call's arguments
    pData,              \* the local `data`: the stages applied so far
    pWaveform,          \* length of the modulated waveform, in chunks
    pCalls,             \* stage invocations of the call, in order
    pFailed,            \* the stage that raised or returned None
    pResult,            \* what the call returned
    \* ---- OFDMModulator / OFDMDemodulator (modulation.py) ----
    rsVariant,          \* which reedsolo the build has installed
    modulator,          \* the OFDMModulator object, once constructed
    demodulator,        \* the OFDMDemodulator object, once constructed
    modData,            \* argument of the last modulate
    modWaveform,        \* what it returned, or that it raised
    demChannel,         \* where the last demodulate's recording came from
    demResult,          \* what the last demodulate returned
    demTrace,           \* what the last demodulate's stages found
    fecEncoded,         \* what rs_codec.encode returned inside the last modulate
    fecDecoded,         \* what rs_codec.decode returned for it
    qamBits,            \* argument of _bits_to_qam_symbols
    qamSymbols,         \* what it returned
    qamDemapped         \* what _qam_symbols_to_bits returned for that

huffVars == <<hPc, hData, hCompressed, hResult, compression_stats, hArg,
              hCalls>>
cryptoVars == <<cPc, cPlain, cPub, cPriv, cAesKey, cIv, cEncrypted, cDecrypted,
                cTamper>>

audioVars == <<pyaudio_terminations, streams, input_stream, output_stream,
               is_listening, listening_thread, callback_queue, audio_buffer,
               buffer_lock, workers, acPc, acChunk, mPc, mIn, nextChunk,
               nextCb, drains, cbLog, evicted, lastRet, apiCalls, faults,
               rxFrames, rxReads, rxRun, txWritten>>

pipeVars == <<pPc, pOpts, pData, pWaveform, pCalls, pFailed, pResult>>

modemVars == <<rsVariant, modulator, demodulator, modData, modWaveform,
               demChannel, demResult, demTrace, fecEncoded, fecDecoded>>

qamVars == <<qamBits, qamSymbols, qamDemapped>>

vars == <<huffVars, cryptoVars, audioVars, pipeVars, modemVars, qamVars>>

notHuffVars == <<cryptoVars, audioVars, pipeVars, modemVars, qamVars>>
notCryptoVars == <<huffVars, audioVars, pipeVars, modemVars, qamVars>>
notAudioVars == <<huffVars, cryptoVars, pipeVars, modemVars, qamVars>>
notPipeVars == <<huffVars, cryptoVars, modemVars, qamVars>>
notModemVars == <<huffVars, cryptoVars, audioVars, pipeVars, qamVars>>

---------------------------------------------------------------------------
(* Generic helpers *)

Bytes(v) == [kind |-> "bytes", val |-> v]
NoneVal == [kind |-> "None", val |-> <<>>]

RECURSIVE SeqsUpTo(_, _)
SeqsUpTo(S, n) ==
    IF n = 0 THEN {<<>>}
    ELSE LET prev == SeqsUpTo(S, n - 1)
         IN prev \cup {Append(s, x) : s \in {p \in prev : Len(p) = n - 1}, x \in S}

RECURSIVE Const(_, _)
Const(n, x) ==
    IF n <= 0 THEN <<>>
    ELSE IF n = 1 THEN <<x>>
    ELSE Const(n \div 2, x) \o Const(n - (n \div 2), x)

\* Python slice s[a:b] with 0 <= a, clipped to the sequence (0-based, b exclusive)
Slice(s, a, b) ==
    LET lo == IF a > Len(s) THEN Len(s) ELSE a
        hi == IF b > Len(s) THEN Len(s) ELSE b
    IN IF hi <= lo THEN <<>> ELSE SubSeq(s, lo + 1, hi)

\* v.to_bytes(n, 'big') for a value that fits in n bytes
RECURSIVE BigEndian(_, _)
BigEndian(v, n) ==
    IF n = 0 THEN <<>> ELSE Append(BigEndian(v \div 256, n - 1), v % 256)

\* int.from_bytes(s, 'big')
RECURSIVE FromBigEndian(_)
FromBigEndian(s) ==
    IF Len(s) = 0 THEN 0
    ELSE 256 * FromBigEndian(SubSeq(s, 1, Len(s) - 1)) + s[Len(s)]

---------------------------------------------------------------------------
(* compression.py *)

HuffMaxLen == 4
MaxHuffCalls == 2
NoChar == -1        \* HuffmanNode.char is None
NoNode == 0         \* HuffmanNode.left / .right is None

\* HuffmanNode.__init__
HuffmanNode(char, freq) ==
    [char |-> char, freq |-> freq, left |-> NoNode, right |-> NoNode]

\* HuffmanNode.__lt__ on two node indices of a node table
NodeLt(nodes, a, b) == nodes[a].freq < nodes[b].freq

\* the entries collections.Counter(data) gets from data[lo..hi]: a (char,
\* count) pair where a byte value occurs for the first time
RECURSIVE CounterRange(_, _, _)
CounterRange(data, lo, hi) ==
    IF lo > hi THEN <<>>
    ELSE IF lo = hi
    THEN IF \E j \in 1..(lo - 1) : data[j] = data[lo] THEN <<>>
         ELSE << <<data[lo],
                   Cardinality({i \in 1..Len(data) : data[i] = data[lo]})>> >>
    ELSE LET mid == (lo + hi) \div 2
         IN CounterRange(data, lo, mid) \o CounterRange(data, mid + 1, hi)

\* collections.Counter(data): (char, count) pairs in first-occurrence order
CounterOf(data) == CounterRange(data, 1, Len(data))

\* heapq._siftdown(heap, startpos, pos) with newitem = heap[pos] taken by the
\* caller; positions 0-based
RECURSIVE SiftDown(_, _, _, _, _)
SiftDown(nodes, heap, startpos, pos, newitem) ==
    IF pos > startpos
    THEN LET parentpos == (pos - 1) \div 2
             parent == heap[parentpos + 1]
         IN IF NodeLt(nodes, newitem, parent)
            THEN SiftDown(nodes, [heap EXCEPT ![pos + 1] = parent],
                          startpos, parentpos, newitem)
            ELSE [heap EXCEPT ![pos + 1] = newitem]
    ELSE [heap EXCEPT ![pos + 1] = newitem]

\* heapq._siftup(heap, pos) with startpos = pos and newitem = heap[pos] taken
\* by the caller
RECURSIVE SiftUp(_, _, _, _, _)
SiftUp(nodes, heap, startpos, pos, newitem) ==
    LET endpos == Len(heap)
        childpos == 2 * pos + 1
    IN IF childpos < endpos
       THEN LET rightpos == childpos + 1
                c == IF rightpos < endpos
                        /\ ~NodeLt(nodes, heap[childpos + 1], heap[rightpos + 1])
                     THEN rightpos ELSE childpos
            IN SiftUp(nodes, [heap EXCEPT ![pos + 1] = heap[c + 1]],
                      startpos, c, newitem)
       ELSE SiftDown(nodes, [heap EXCEPT ![pos + 1] = newitem], startpos, pos,
                     newitem)

\* heapq.heapify(x): for i in reversed(range(n // 2)): _siftup(x, i), from
\* position i downwards
RECURSIVE Heapify(_, _, _)
Heapify(nodes, heap, i) ==
    IF i < 0 THEN heap
    ELSE Heapify(nodes, SiftUp(nodes, heap, i, i, heap[i + 1]), i - 1)

\* heapq.heappop(heap): [item, heap]
HeapPop(nodes, heap) ==
    LET lastelt == heap[Len(heap)]
        rest == SubSeq(heap, 1, Len(heap) - 1)
    IN IF Len(rest) > 0
       THEN [item |-> rest[1],
             heap |-> SiftUp(nodes, [rest EXCEPT ![1] = lastelt], 0, 0,
                             lastelt)]
       ELSE [item |-> lastelt, heap |-> rest]

\* the while loop of _build_tree
RECURSIVE BuildLoop(_, _)
BuildLoop(nodes, heap) ==
    IF Len(heap) > 1
    THEN LET p1 == HeapPop(nodes, heap)
             p2 == HeapPop(nodes, p1.heap)
             internal == [char |-> NoChar,
                          freq |-> nodes[p1.item].freq + nodes[p2.item].freq,
                          left |-> p1.item, right |-> p2.item]
             nodes2 == Append(nodes, internal)
             \* heapq.heappush(heap, internal)
             pushed == SiftDown(nodes2, Append(p2.heap, Len(nodes2)), 0,
                                Len(p2.heap), Len(nodes2))
         IN BuildLoop(nodes2, pushed)
    ELSE [nodes |-> nodes, heap |-> heap]

\* the leaves [HuffmanNode(char, freq) for char, freq in freq_counter.items()]
\* up to entry k
RECURSIVE LeafNodes(_, _)
LeafNodes(freq_counter, k) ==
    IF k = 0 THEN <<>>
    ELSE Append(LeafNodes(freq_counter, k - 1),
                HuffmanNode(freq_counter[k][1], freq_counter[k][2]))

RECURSIVE Iota(_)
Iota(k) == IF k = 0 THEN <<>> ELSE Append(Iota(k - 1), k)

\* HuffmanCompressor._build_tree: a node table and the index of the root
_build_tree(freq_counter) ==
    LET leaves == LeafNodes(freq_counter, Len(freq_counter))
        heap0 == Heapify(leaves, Iota(Len(leaves)), (Len(leaves) \div 2) - 1)
        built == BuildLoop(leaves, heap0)
    IN IF Len(built.heap) > 0
       THEN [nodes |-> built.nodes, root |-> built.heap[1]]
       ELSE [nodes |-> <<HuffmanNode(NoChar, 0)>>, root |-> 1]

\* HuffmanCompressor._generate_codes(node, code, codes) on node n of the node
\* table: the (char, code) assignments in order
RECURSIVE _generate_codes(_, _, _)
_generate_codes(nodes, n, code) ==
    IF nodes[n].char # NoChar THEN << <<nodes[n].char, code>> >>
    ELSE (IF nodes[n].left # NoNode
          THEN _generate_codes(nodes, nodes[n].left, Append(code, 0))
          ELSE <<>>)
         \o
         (IF nodes[n].right # NoNode
          THEN _generate_codes(nodes, nodes[n].right, Append(code, 1))
          ELSE <<>>)

\* for byte in data: encoded_data += codes[byte]
RECURSIVE EncodeData(_, _)
EncodeData(codes, data) ==
    IF data = <<>> THEN <<>>
    ELSE LET byte == Head(data)
             \* codes[byte]: the last assignment made for that key
             hit == {i \in 1..Len(codes) : codes[i][1] = byte}
             code == codes[CHOOSE i \in hit : \A j \in hit : j <= i][2]
         IN code \o EncodeData(codes, Tail(data))

\* int(byte_str, 2) on a list of bits
RECURSIVE BitsToInt(_)
BitsToInt(bits) ==
    IF Len(bits) = 0 THEN 0
    ELSE 2 * BitsToInt(SubSeq(bits, 1, Len(bits) - 1)) + bits[Len(bits)]

\* HuffmanCompressor._bitstring_to_bytes: pad to a multiple of 8, then
\* for i in range(0, len(bitstring), 8): result.append(int(bitstring[i:i+8], 2))
RECURSIVE _bitstring_to_bytes(_)
_bitstring_to_bytes(bitstring) ==
    LET padding_length == (8 - (Len(bitstring) % 8)) % 8
        padded == bitstring \o Const(padding_length, 0)
    IN IF padded = <<>> THEN <<>>
       ELSE <<BitsToInt(SubSeq(padded, 1, 8))>>
                \o _bitstring_to_bytes(SubSeq(padded, 9, Len(padded)))

\* format(byte, '08b')
RECURSIVE IntBits(_, _)
IntBits(v, n) == IF n = 0 THEN <<>> ELSE Append(IntBits(v \div 2, n - 1), v % 2)

ByteBits(byte) == IntBits(byte, 8)

\* HuffmanCompressor._bytes_to_bitstring
RECURSIVE _bytes_to_bitstring(_)
_bytes_to_bitstring(data) ==
    IF Len(data) = 0 THEN <<>>
    ELSE IF Len(data) = 1 THEN ByteBits(Head(data))
    ELSE LET mid == Len(data) \div 2
         IN _bytes_to_bitstring(SubSeq(data, 1, mid))
            \o _bytes_to_bitstring(SubSeq(data, mid + 1, Len(data)))

\* the loop of _create_header: each char followed by its 4-byte frequency
RECURSIVE HeaderEntries(_)
HeaderEntries(freq_counter) ==
    IF freq_counter = <<>> THEN <<>>
    ELSE <<Head(freq_counter)[1]>> \o BigEndian(Head(freq_counter)[2], 4)
         \o HeaderEntries(Tail(freq_counter))

\* HuffmanCompressor._create_header; bytearray.append raises for a value
\* outside range(256)
_create_header(freq_counter) ==
    IF Len(freq_counter) > 255 THEN [raised |-> TRUE, val |-> <<>>]
    ELSE [raised |-> FALSE,
          val |-> <<Len(freq_counter)>> \o HeaderEntries(freq_counter)]

\* HuffmanCompressor.compress: the returned bytes and the stats it leaves
compress(data, stats) ==
    IF Len(data) = 0 THEN [out |-> <<>>, stats |-> stats]
    ELSE LET freq_counter == CounterOf(data)
             huff_tree == _build_tree(freq_counter)
             code_table ==
                 _generate_codes(huff_tree.nodes, huff_tree.root, <<>>)
             encoded_data == EncodeData(code_table, data)
             compressed_data == _bitstring_to_bytes(encoded_data)
             header == _create_header(freq_counter)
             result == header.val \o compressed_data
         IN IF header.raised THEN [out |-> data, stats |-> stats]
            ELSE [out |-> result,
                  stats |-> [original_size |-> Len(data),
                             compressed_size |-> Len(result)]]

\* the loop of _extract_header; data[i] beyond the end raises IndexError
RECURSIVE ExtractEntries(_, _, _, _)
ExtractEntries(data, i, header_size, cnt) ==
    IF i >= header_size THEN [raised |-> FALSE, counter |-> cnt]
    ELSE IF i >= Len(data) THEN [raised |-> TRUE, counter |-> cnt]
    ELSE LET c == data[i + 1]
             f == FromBigEndian(Slice(data, i + 1, i + 5))
             \* freq_counter[char] = freq on an insertion-ordered mapping
             hit == {k \in 1..Len(cnt) : cnt[k][1] = c}
             set == IF hit = {} THEN Append(cnt, <<c, f>>)
                    ELSE [cnt EXCEPT ![CHOOSE k \in hit : TRUE] = <<c, f>>]
         IN ExtractEntries(data, i + 5, header_size, set)

\* _extract_header that fills the table from the last entry to the first
_extract_header_backwards(data) ==
    LET num_unique == data[1]
        header_size == 1 + num_unique * 5
        ent == ExtractEntries(data, 1, header_size, <<>>)
        RECURSIVE Reverse(_)
        Reverse(q) ==
            IF q = <<>> THEN <<>> ELSE Append(Reverse(Tail(q)), Head(q))
    IN [raised |-> ent.raised, counter |-> Reverse(ent.counter),
        rest |-> Slice(data, header_size, Len(data))]

\* HuffmanCompressor._extract_header
_extract_header(data) ==
    LET num_unique == data[1]
        header_size == 1 + num_unique * 5
        ent == ExtractEntries(data, 1, header_size, <<>>)
    IN [raised |-> ent.raised, counter |-> ent.counter,
        rest |-> Slice(data, header_size, Len(data))]

\* the decoding loop of decompress; following a missing child and then
\* reading .char raises AttributeError
RECURSIVE DecodeLoop(_, _, _, _, _)
DecodeLoop(tree, bs, i, current_node, decoded) ==
    IF i > Len(bs) THEN [raised |-> FALSE, val |-> decoded]
    ELSE LET nxt == IF bs[i] = 0 THEN tree.nodes[current_node].left
                    ELSE tree.nodes[current_node].right
         IN IF nxt = NoNode THEN [raised |-> TRUE, val |-> decoded]
            ELSE IF tree.nodes[nxt].char # NoChar
                 THEN DecodeLoop(tree, bs, i + 1, tree.root,
                                 Append(decoded, tree.nodes[nxt].char))
                 ELSE DecodeLoop(tree, bs, i + 1, nxt, decoded)

\* HuffmanCompressor.decompress
decompress(data) ==
    IF Len(data) = 0 THEN Bytes(<<>>)
    ELSE LET hdr == _extract_header(data)
         IN IF hdr.raised THEN NoneVal
            ELSE LET huff_tree == _build_tree(hdr.counter)
                     bits == _bytes_to_bitstring(hdr.rest)
                     dec == DecodeLoop(huff_tree, bits, 1, huff_tree.root, <<>>)
                 IN IF dec.raised THEN NoneVal ELSE Bytes(dec.val)

HuffIdle ==
    /\ hPc = "idle"
    /\ hData = <<>>
    /\ hCompressed = <<>>
    /\ hResult = NoneVal
    /\ compression_stats = [original_size |-> 0, compressed_size |-> 0]
    /\ hArg = <<>>
    /\ hCalls = 0

\* HuffmanCompressor.get_stats: a copy of the dictionary
get_stats(stats) == stats

\* HuffmanCompressor.compress(data): the first call compresses hData, a later
\* one an input that is empty or not
Compress ==
    /\ hCalls < MaxHuffCalls
    /\ \E data \in (IF hPc = "start" THEN {hData} ELSE {<<>>, <<66, 66>>}) :
          LET r == compress(data, compression_stats)
          IN /\ hData' = data
             /\ hArg' = data
             /\ hCompressed' = r.out
             /\ compression_stats' = r.stats
    /\ hPc' = "compressed"
    /\ hCalls' = hCalls + 1
    /\ UNCHANGED hResult
    /\ UNCHANGED notHuffVars

\* HuffmanCompressor.decompress(data), for what the last compress returned or
\* for a beginning of it
Decompress ==
    /\ hCalls < MaxHuffCalls
    /\ hPc = "compressed"
    /\ LET header_size ==
               IF hCompressed = <<>> THEN 0 ELSE 1 + hCompressed[1] * 5
       IN \E n \in {1, 2, header_size - 5, header_size - 4, header_size - 1,
                    header_size, Len(hCompressed)} :
             /\ n >= 1 \/ n = Len(hCompressed)
             /\ n <= Len(hCompressed)
             /\ hArg' = Slice(hCompressed, 0, n)
             /\ hResult' = decompress(Slice(hCompressed, 0, n))
    /\ hPc' = "decompressed"
    /\ hCalls' = hCalls + 1
    /\ UNCHANGED <<hData, hCompressed, compression_stats>>
    /\ UNCHANGED notHuffVars

---------------------------------------------------------------------------
(* encryption.py *)

aes_key_size == 32
rsa_key_size == 2048
iv_size == 16
AESBlockSize == 16          \* Crypto.Cipher.AES.block_size
OAEPHashLen == 20           \* PKCS1_OAEP default hash (SHA-1) digest size

CryptoMaxLen == 2
KeyPairs == {1, 2}          \* key pairs returned by generate_key_pair

Ok(v) == [raised |-> FALSE, val |-> v]
Raised == [raised |-> TRUE, val |-> <<>>]

\* bytes of s, each shifted by k modulo 256
RECURSIVE ShiftBytes(_, _, _)
ShiftBytes(s, k, n) ==
    IF n = 0 THEN <<>>
    ELSE Append(ShiftBytes(s, k, n - 1), (s[n] + k) % 256)

\* pad that adds nothing to data already a multiple of the block size
pad_noFullBlock(data, block_size) ==
    LET padding_len == (block_size - (Len(data) % block_size)) % block_size
    IN data \o Const(padding_len, padding_len)

\* Crypto.Util.Padding.pad(data, block_size), PKCS#7
pad(data, block_size) ==
    LET padding_len == block_size - (Len(data) % block_size)
    IN data \o Const(padding_len, padding_len)

\* unpad that strips the declared number of bytes without looking at them
unpad_unchecked(padded, block_size) ==
    LET pdata_len == Len(padded) IN
    IF pdata_len = 0 THEN Raised
    ELSE IF pdata_len % block_size # 0 THEN Raised
    ELSE Ok(Slice(padded, 0, pdata_len - (padded[pdata_len] % pdata_len)))

\* Crypto.Util.Padding.unpad(padded, block_size), PKCS#7
unpad(padded, block_size) ==
    LET pdata_len == Len(padded) IN
    IF pdata_len = 0 THEN Raised
    ELSE IF pdata_len % block_size # 0 THEN Raised
    ELSE LET padding_len == padded[pdata_len] IN
         IF padding_len < 1 \/ padding_len > block_size THEN Raised
         ELSE IF SubSeq(padded, pdata_len - padding_len + 1, pdata_len)
                    # Const(padding_len, padding_len) THEN Raised
         ELSE Ok(SubSeq(padded, 1, pdata_len - padding_len))

\* AES.new(key, AES.MODE_CBC, iv).encrypt(data): each block is chained
\* with the previous ciphertext block, the first with the iv
RECURSIVE CBCEncrypt(_, _, _)
CBCEncrypt(key, prev, data) ==
    LET \* one block of the block cipher under key: a keyed byte-wise
        \* permutation
        RECURSIVE BlockEnc(_, _)
        BlockEnc(block, n) ==
            IF n = 0 THEN <<>>
            ELSE Append(BlockEnc(block, n - 1),
                        (block[n] + prev[n] + key[n] + key[n + 16]) % 256)
    IN IF Len(data) = 0 THEN <<>>
       ELSE LET c == BlockEnc(SubSeq(data, 1, AESBlockSize), AESBlockSize)
            IN c \o CBCEncrypt(key, c,
                               SubSeq(data, AESBlockSize + 1, Len(data)))

RECURSIVE CBCDecrypt(_, _, _)
CBCDecrypt(key, prev, data) ==
    LET RECURSIVE BlockDec(_, _)
        BlockDec(block, n) ==
            IF n = 0 THEN <<>>
            ELSE Append(BlockDec(block, n - 1),
                        (block[n] + 768 - prev[n] - key[n] - key[n + 16]) % 256)
    IN IF Len(data) = 0 THEN <<>>
       ELSE LET c == SubSeq(data, 1, AESBlockSize)
            IN BlockDec(c, AESBlockSize)
                   \o CBCDecrypt(key, c,
                                 SubSeq(data, AESBlockSize + 1, Len(data)))

\* AES.new(...) rejects a key that is not 16, 24 or 32 bytes and an iv that
\* is not 16 bytes; decrypt rejects data that is not a multiple of 16 bytes
AESDecrypt(key, iv, data) ==
    IF Len(key) \notin {16, 24, 32} THEN Raised
    ELSE IF Len(iv) # AESBlockSize THEN Raised
    ELSE IF Len(data) % AESBlockSize # 0 THEN Raised
    ELSE Ok(CBCDecrypt(key \o Const(32 - Len(key), 0), iv, data))

\* PKCS1_OAEP.new(RSA.import_key(public_key)).encrypt(message): one block
\* of rsa_key_size / 8 bytes that only the matching private key opens
OAEPEncrypt(pub, message) ==
    LET k == rsa_key_size \div 8 IN
    IF Len(message) > k - 2 * OAEPHashLen - 2 THEN Raised
    ELSE Ok(<<pub, Len(message)>> \o ShiftBytes(message, pub, Len(message))
            \o Const(k - 2 - Len(message), 0))

\* PKCS1_OAEP.new(RSA.import_key(private_key)).decrypt(ciphertext)
OAEPDecrypt(priv, ct) ==
    LET k == rsa_key_size \div 8 IN
    IF Len(ct) # k THEN Raised
    ELSE IF ct[1] # priv THEN Raised
    ELSE IF ct[2] > k - 2 * OAEPHashLen - 2 THEN Raised
    ELSE IF SubSeq(ct, 3 + ct[2], k) # Const(k - 2 - ct[2], 0) THEN Raised
    ELSE Ok(ShiftBytes(SubSeq(ct, 3, 2 + ct[2]), 256 - priv, ct[2]))

\* CryptoManager.encrypt with the aes_key and iv it drew
encrypt(data, recipient_public_key, aes_key, iv) ==
    LET padded_data == pad(data, AESBlockSize)
        encrypted_data == CBCEncrypt(aes_key, iv, padded_data)
        encrypted_key == OAEPEncrypt(recipient_public_key, aes_key)
    IN IF encrypted_key.raised THEN Raised
       ELSE Ok(BigEndian(Len(encrypted_key.val), 2) \o encrypted_key.val
               \o iv \o encrypted_data)

\* CryptoManager.decrypt: every exception becomes None
decrypt(encrypted_data, private_key) ==
    LET key_length == FromBigEndian(Slice(encrypted_data, 0, 2))
        encrypted_key == Slice(encrypted_data, 2, 2 + key_length)
        iv == Slice(encrypted_data, 2 + key_length, 2 + key_length + iv_size)
        data == Slice(encrypted_data, 2 + key_length + iv_size,
                      Len(encrypted_data))
        aes_key == OAEPDecrypt(private_key, encrypted_key)
    IN IF aes_key.raised THEN NoneVal
       ELSE LET decrypted_padded == AESDecrypt(aes_key.val, iv, data) IN
            IF decrypted_padded.raised THEN NoneVal
            ELSE LET decrypted_data == unpad(decrypted_padded.val, AESBlockSize)
                 IN IF decrypted_data.raised THEN NoneVal
                    ELSE Bytes(decrypted_data.val)

\* get_random_bytes(n): the two values the model draws, a constant string
\* and a ramp, both depending on seed
get_random_bytes(n, seed) ==
    LET RECURSIVE Ramp(_)
        Ramp(k) ==
            IF k = 0 THEN <<>>
            ELSE Append(Ramp(k - 1), ((37 + seed) * k) % 256)
    IN {Const(n, seed), Ramp(n)}

CryptoIdle ==
    /\ cPc = "idle"
    /\ cPlain = <<>>
    /\ cPub = 1
    /\ cPriv = 1
    /\ cAesKey = <<>>
    /\ cIv = <<>>
    /\ cEncrypted = <<>>
    /\ cDecrypted = NoneVal
    /\ cTamper = "none"

Encrypt ==
    /\ cPc = "start"
    /\ \E aes_key \in get_random_bytes(aes_key_size, 7),
          iv \in get_random_bytes(iv_size, 0) :
         /\ cAesKey' = aes_key
         /\ cIv' = iv
         /\ cEncrypted' = encrypt(cPlain, cPub, aes_key, iv).val
    /\ cPc' = "encrypted"
    /\ UNCHANGED <<cPlain, cPub, cPriv, cDecrypted, cTamper>>
    /\ UNCHANGED notCryptoVars

Decrypt ==
    /\ cPc = "encrypted"
    /\ cDecrypted' = decrypt(cEncrypted, cPriv)
    /\ cPc' = "decrypted"
    /\ UNCHANGED <<cPlain, cPub, cPriv, cAesKey, cIv, cEncrypted, cTamper>>
    /\ UNCHANGED notCryptoVars

\* the encrypted_data argument of decrypt is not what encrypt returned: the
\* envelope was cut short, or it carries a plaintext whose padding is invalid
Tamper ==
    /\ cPc = "encrypted"
    /\ cTamper = "none"
    /\ LET key_length == FromBigEndian(Slice(cEncrypted, 0, 2))
           header_size == 2 + key_length + iv_size
       IN \/ /\ cTamper' = "truncated"
             /\ \E n \in {0, 1, 2, 3, 2 + key_length - 1, 2 + key_length,
                           header_size - 1, header_size, header_size + 1,
                           header_size + (AESBlockSize - 1),
                           header_size + AESBlockSize,
                           Len(cEncrypted) - AESBlockSize,
                           Len(cEncrypted) - 1} :
                   /\ n < Len(cEncrypted)
                   /\ cEncrypted' = Slice(cEncrypted, 0, n)
          \/ /\ cTamper' = "padding"
             /\ \E last \in {0, 2, AESBlockSize + 1} :
                   LET padded == pad(cPlain, AESBlockSize)
                       n == Len(padded)
                       garbled == [padded EXCEPT ![n - 1] = 3, ![n] = last]
                   IN cEncrypted' =
                          Slice(cEncrypted, 0, header_size)
                              \o CBCEncrypt(cAesKey, cIv, garbled)
    /\ UNCHANGED <<cPc, cPlain, cPub, cPriv, cAesKey, cIv, cDecrypted>>
    /\ UNCHANGED notCryptoVars

---------------------------------------------------------------------------
(* audio.py *)

AudioSampleRate == 1        \* Config.sample_rate, scaled
AudioChunkSize == 2         \* Config.chunk_size, scaled
MaxChunks == 3              \* chunks the input device produces
MaxWorkers == 2             \* successful start_listening calls
MaxCalls == 3               \* API calls
MaxFaults == 1              \* device errors
MaxTxChunks == 2            \* length of a transmitted waveform, in chunks

Stream(kind) == [kind |-> kind, state |-> "active", stops |-> 0, closes |-> 0]

\* Stream.stop_stream() / Stream.close() on handle h
StopStream(ss, h) ==
    [ss EXCEPT ![h] = [@ EXCEPT !.state = "stopped", !.stops = @ + 1]]
CloseStream(ss, h) ==
    [ss EXCEPT ![h] = [@ EXCEPT !.state = "closed", !.closes = @ + 1]]
\* stop_stream() on a closed stream raises
StopRaises(ss, h) == h # 0 /\ ss[h].state = "closed"

\* EvictLoop popping the newest chunk, pop() for pop(0)
RECURSIVE EvictLoop_newestFirst(_, _)
EvictLoop_newestFirst(buf, max_samples) ==
    IF Len(buf) * AudioChunkSize > max_samples /\ Len(buf) > 1
    THEN EvictLoop_newestFirst(SubSeq(buf, 1, Len(buf) - 1), max_samples)
    ELSE buf

\* the eviction loop of _audio_callback
RECURSIVE EvictLoop(_, _)
EvictLoop(buf, max_samples) ==
    IF Len(buf) * AudioChunkSize > max_samples /\ Len(buf) > 1
    THEN EvictLoop(Tail(buf), max_samples)
    ELSE buf

SeqSet(q) == {q[i] : i \in 1..Len(q)}

Ret(op, res) == [op |-> op, res |-> res]

AudioIdle ==
    /\ pyaudio_terminations = 0
    /\ streams = <<>>
    /\ input_stream = 0
    /\ output_stream = 0
    /\ is_listening = FALSE
    /\ listening_thread = 0
    /\ callback_queue = <<>>
    /\ audio_buffer = <<>>
    /\ buffer_lock = 0
    /\ workers = <<>>
    /\ acPc = "idle"
    /\ acChunk = 0
    /\ mIn = "none"
    /\ nextChunk = 1
    /\ nextCb = 1
    /\ drains = 0
    /\ cbLog = <<>>
    /\ evicted = {}
    /\ lastRet = Ret("none", "none")
    /\ apiCalls = 0
    /\ faults = 0
    /\ rxFrames = <<>>
    /\ rxReads = 0
    /\ rxRun = [ended |-> "none"]
    /\ txWritten = 0

\* AudioManager.__init__
AudioConstructed == AudioIdle /\ mPc = "idle"
AudioAbsent == AudioIdle /\ mPc = "absent"

threadVars == <<workers, acPc, acChunk, buffer_lock, audio_buffer, nextChunk,
                drains, cbLog, evicted>>
ioVars == <<rxFrames, rxReads, rxRun, txWritten>>

\* AudioManager.start_listening
StartListening ==
    /\ mPc = "idle"
    /\ apiCalls < MaxCalls
    /\ apiCalls' = apiCalls + 1
    /\ \/ /\ is_listening
          /\ lastRet' = Ret("start_listening", "False")
          /\ UNCHANGED <<streams, input_stream, is_listening, listening_thread,
                         callback_queue, workers, nextCb, faults>>
       \/ /\ ~is_listening
          /\ pyaudio_terminations > 0 \/ faults < MaxFaults
          /\ faults' = IF pyaudio_terminations > 0 THEN faults ELSE faults + 1
          /\ lastRet' = Ret("start_listening", "False")
          /\ UNCHANGED <<streams, input_stream, is_listening, listening_thread,
                         callback_queue, workers, nextCb>>
       \/ /\ ~is_listening
          /\ pyaudio_terminations = 0
          /\ Len(workers) < MaxWorkers
          /\ streams' = Append(streams, Stream("callback"))
          /\ input_stream' = Len(streams) + 1
          /\ is_listening' = TRUE
          /\ callback_queue' = Append(callback_queue, nextCb)
          /\ nextCb' = nextCb + 1
          /\ workers' = Append(workers, [pc |-> "loop", cb |-> 0, drain |-> 0,
                                               data |-> <<>>, mode |-> "none",
                                               rx |-> "none"])
          /\ listening_thread' = Len(workers) + 1
          /\ lastRet' = Ret("start_listening", "True")
          /\ UNCHANGED faults
    /\ UNCHANGED <<pyaudio_terminations, output_stream, audio_buffer,
                   buffer_lock, acPc, acChunk, mPc, mIn, nextChunk, drains,
                   cbLog, evicted, ioVars>>
    /\ UNCHANGED notAudioVars

\* where the calling thread goes when stop_listening returns
AfterStop(res) ==
    IF mIn = "cleanup"
    THEN /\ mPc' = "cleanup_rest"
         /\ UNCHANGED <<mIn, lastRet>>
    ELSE /\ mPc' = "idle"
         /\ mIn' = "none"
         /\ lastRet' = Ret("stop_listening", res)

\* stop_listening up to its first blocking call
StopEnter ==
    IF ~is_listening
    THEN /\ IF mIn' = "cleanup"
            THEN mPc' = "cleanup_rest" /\ UNCHANGED lastRet
            ELSE mPc' = "idle" /\ lastRet' = Ret("stop_listening", "not_listening")
         /\ UNCHANGED is_listening
    ELSE /\ is_listening' = FALSE
         /\ mPc' = IF input_stream # 0 THEN "stop_stream"
                   ELSE IF listening_thread # 0 THEN "join" ELSE "clear"
         /\ UNCHANGED lastRet

\* AudioManager.stop_listening, entry
StopListening ==
    /\ mPc = "idle"
    /\ apiCalls < MaxCalls
    /\ apiCalls' = apiCalls + 1
    /\ mIn' = IF is_listening THEN "stop" ELSE "none"
    /\ StopEnter
    /\ UNCHANGED <<pyaudio_terminations, streams, input_stream, output_stream,
                   listening_thread, callback_queue, nextCb, faults,
                   threadVars, ioVars>>
    /\ UNCHANGED notAudioVars

\* stop_listening: input_stream.stop_stream(); close(); input_stream = None.
\* stop_stream() returns once the stream's callback is not running.
StopListening_Stream ==
    /\ mPc = "stop_stream"
    /\ acPc = "idle"
    /\ \/ /\ faults < MaxFaults
          /\ faults' = faults + 1
          /\ AfterStop("error")
          /\ UNCHANGED <<streams, input_stream>>
       \/ \* input_stream became None after the `if self.input_stream` test
          \* (a receive on the worker thread), or its stream is closed
          /\ input_stream = 0 \/ StopRaises(streams, input_stream)
          /\ AfterStop("error")
          /\ UNCHANGED <<streams, input_stream, faults>>
       \/ /\ input_stream # 0
          /\ ~StopRaises(streams, input_stream)
          /\ streams' = CloseStream(StopStream(streams, input_stream), input_stream)
          /\ input_stream' = 0
          /\ mPc' = IF listening_thread # 0 THEN "join" ELSE "clear"
          /\ UNCHANGED <<mIn, lastRet, faults>>
    /\ UNCHANGED <<pyaudio_terminations, output_stream, is_listening,
                   listening_thread, callback_queue, nextCb, apiCalls,
                   threadVars, ioVars>>
    /\ UNCHANGED notAudioVars

\* stop_listening: listening_thread.join(timeout=1.0); listening_thread = None.
\* The join returns when the worker has ended, or after 1 s while the worker
\* is blocked on the lock or inside the callback.
StopListening_Join ==
    /\ mPc = "join"
    /\ workers[listening_thread].pc \in {"done", "lock", "in_cb"}
    /\ listening_thread' = 0
    /\ mPc' = "clear"
    /\ UNCHANGED <<pyaudio_terminations, streams, input_stream, output_stream,
                   is_listening, callback_queue, nextCb, mIn, lastRet,
                   apiCalls, faults, threadVars, ioVars>>
    /\ UNCHANGED notAudioVars

\* stop_listening: empty the callback queue and return
StopListening_Clear ==
    /\ mPc = "clear"
    /\ callback_queue' = <<>>
    /\ AfterStop("stopped")
    /\ UNCHANGED <<pyaudio_terminations, streams, input_stream, output_stream,
                   is_listening, listening_thread, nextCb, apiCalls, faults,
                   threadVars, ioVars>>
    /\ UNCHANGED notAudioVars

\* AudioManager.cleanup, entry: it calls stop_listening first
Cleanup ==
    /\ mPc = "idle"
    /\ apiCalls < MaxCalls
    /\ apiCalls' = apiCalls + 1
    /\ mIn' = "cleanup"
    /\ StopEnter
    /\ UNCHANGED <<pyaudio_terminations, streams, input_stream, output_stream,
                   listening_thread, callback_queue, nextCb, faults,
                   threadVars, ioVars>>
    /\ UNCHANGED notAudioVars

\* if stream: stream.stop_stream(); stream.close()   (the handle is kept)
CleanupStream(ss, h) ==
    IF h = 0 THEN [raised |-> FALSE, ss |-> ss]
    ELSE IF StopRaises(ss, h) THEN [raised |-> TRUE, ss |-> ss]
    ELSE [raised |-> FALSE, ss |-> CloseStream(StopStream(ss, h), h)]

\* AudioManager.cleanup after stop_listening: close both streams, terminate
Cleanup_Rest ==
    /\ mPc = "cleanup_rest"
    /\ LET a == CleanupStream(streams, input_stream)
           b == CleanupStream(a.ss, output_stream)
       IN IF a.raised THEN UNCHANGED <<streams, pyaudio_terminations>>
          ELSE IF b.raised
               THEN streams' = a.ss /\ UNCHANGED pyaudio_terminations
               ELSE /\ streams' = b.ss
                    /\ pyaudio_terminations' = pyaudio_terminations + 1
    /\ mPc' = "idle"
    /\ mIn' = "none"
    /\ lastRet' = Ret("cleanup", "done")
    /\ UNCHANGED <<input_stream, output_stream, is_listening, listening_thread,
                   callback_queue, nextCb, apiCalls, faults, threadVars, ioVars>>
    /\ UNCHANGED notAudioVars

mainFrame == <<is_listening, listening_thread, callback_queue, nextCb, mPc,
               mIn, threadVars>>

\* the body of AudioManager.transmit for a waveform of n chunks
TransmitCall(n) ==
    /\ mPc = "idle"
    /\ apiCalls' = apiCalls + 1
    /\ IF n = 0 \/ pyaudio_terminations > 0
       THEN \* _normalize_audio raises on an empty waveform (np.max of an
            \* empty array), or pyaudio.open raises: no stream to close
            /\ txWritten' = 0
            /\ lastRet' = Ret("transmit", "False")
            /\ UNCHANGED <<streams, faults>>
       ELSE \/ \* a device error: in open (k = 0), in write number k, or in
               \* stop_stream after the last write (k = n + 1)
               /\ faults < MaxFaults
               /\ faults' = faults + 1
               /\ \E k \in 0..(n + 1) :
                     /\ txWritten' = IF k = 0 THEN 0 ELSE k - 1
                     /\ streams' =
                           IF k = 0 THEN streams
                           ELSE CloseStream(Append(streams, Stream("output")),
                                            Len(streams) + 1)
               /\ lastRet' = Ret("transmit", "False")
            \/ /\ txWritten' = n
               /\ streams' =
                     CloseStream(StopStream(Append(streams, Stream("output")),
                                            Len(streams) + 1),
                                 Len(streams) + 1)
               /\ lastRet' = Ret("transmit", "True")
               /\ UNCHANGED faults
    /\ UNCHANGED <<pyaudio_terminations, input_stream, output_stream,
                   rxFrames, rxReads, rxRun, mainFrame>>

\* _calculate_energy(chunk) < 100
LowEnergy(samples) ==
    LET \* one int16 sample squared, as numpy computes samples ** 2 on an
        \* int16 array
        Int16Square(x) ==
            LET m == (x * x) % 65536 IN IF m >= 32768 THEN m - 65536 ELSE m
        RECURSIVE SumSquares(_)
        SumSquares(i) ==
            IF i > Len(samples) THEN 0
            ELSE Int16Square(samples[i]) + SumSquares(i + 1)
    IN SumSquares(1) < 100 * Len(samples)

\* what the device returns on read number k: a level for src.loud reads, then
\* src.gap reads of silence, then the level again
ReadChunk(src, k) ==
    IF k > src.loud /\ k <= src.loud + src.gap
    THEN Const(AudioChunkSize, 0)
    ELSE Const(AudioChunkSize, src.level)

\* the while loop of receive: i is the next read, t the time used
RECURSIVE ReceiveLoop(_, _, _, _, _)
ReceiveLoop(src, timeout, i, t, frames) ==
    LET ReadRaises(k) == src.errAt = k
        min_frames == 10        \* len(audio_frames) > 10
        sleep_ticks == 5        \* time.sleep(0.1), in chunk durations
    IN
    IF t >= timeout
    THEN [frames |-> frames, reads |-> i - 1, ended |-> "timeout"]
    ELSE IF ReadRaises(i)
    THEN [frames |-> frames, reads |-> i - 1, ended |-> "error"]
    ELSE LET kept == Append(frames, i) IN
         IF Len(kept) > min_frames /\ LowEnergy(ReadChunk(src, i))
         THEN IF ReadRaises(i + 1)
              THEN [frames |-> kept, reads |-> i, ended |-> "error"]
              ELSE IF LowEnergy(ReadChunk(src, i + 1))
                   THEN [frames |-> kept, reads |-> i + 1, ended |-> "silence"]
                   ELSE ReceiveLoop(src, timeout, i + 2, t + 2 + sleep_ticks,
                                    kept)
         ELSE ReceiveLoop(src, timeout, i + 1, t + 1, kept)

\* receive: pyaudio.open raised; the except clause closes whatever
\* input_stream holds and returns None
ReceiveOpenFailed ==
    /\ rxFrames' = <<>>
    /\ rxReads' = 0
    /\ rxRun' = [ended |-> "none"]
    /\ IF input_stream = 0
       THEN /\ lastRet' = Ret("receive", "None")
            /\ UNCHANGED <<streams, input_stream>>
       ELSE /\ streams' = CloseStream(streams, input_stream)
            /\ \E close_raises \in BOOLEAN :
                  \* close() of an already closed stream raises or not, by
                  \* PyAudio version; the exception leaves receive
                  IF close_raises /\ streams[input_stream].state = "closed"
                  THEN /\ lastRet' = Ret("receive", "raised")
                       /\ UNCHANGED input_stream
                  ELSE /\ lastRet' = Ret("receive", "None")
                       /\ input_stream' = 0

\* the body of AudioManager.receive
ReceiveCall ==
    /\ mPc = "idle"
    /\ apiCalls' = apiCalls + 1
    /\ IF pyaudio_terminations > 0
       THEN ReceiveOpenFailed /\ UNCHANGED faults
       ELSE \/ /\ faults < MaxFaults
               /\ faults' = faults + 1
               /\ ReceiveOpenFailed
            \/ \* the devices receive is run against: a quiet gap of one or
               \* two chunks before or after the tenth chunk, loud chunks of
               \* several levels, and a read that raises (errAt, none for 0)
               /\ \E timeout \in {0, 30},
                            src \in
                              {[loud |-> 11, gap |-> 2, level |-> 100, errAt |-> 0],
                               [loud |-> 11, gap |-> 1, level |-> 100, errAt |-> 0],
                               [loud |-> 9, gap |-> 2, level |-> 100, errAt |-> 0],
                               [loud |-> 11, gap |-> 1, level |-> 200, errAt |-> 0],
                               [loud |-> 11, gap |-> 2, level |-> 256, errAt |-> 0],
                               [loud |-> 11, gap |-> 2, level |-> 100, errAt |-> 1],
                               [loud |-> 11, gap |-> 2, level |-> 100, errAt |-> 13]} :
                     LET r == ReceiveLoop(src, timeout, 1, 0, <<>>) IN
                     /\ rxFrames' = r.frames
                     /\ rxReads' = r.reads
                     /\ rxRun' = [ended |-> r.ended, src |-> src,
                                   timeout |-> timeout]
                     /\ lastRet' = Ret("receive", IF r.frames = <<>> THEN "None"
                                                  ELSE "waveform")
               /\ streams' =
                     CloseStream(StopStream(Append(streams, Stream("blocking")),
                                            Len(streams) + 1),
                                 Len(streams) + 1)
               /\ input_stream' = 0
               /\ UNCHANGED faults
    /\ UNCHANGED <<pyaudio_terminations, output_stream, txWritten, mainFrame>>

mainVars == <<pyaudio_terminations, streams, input_stream, output_stream,
              is_listening, listening_thread, callback_queue, mPc, mIn,
              nextCb, lastRet, apiCalls, faults, ioVars>>

\* _audio_callback is entered: the device hands over one chunk
AudioCallback ==
    /\ acPc = "idle"
    /\ nextChunk <= MaxChunks
    /\ \E h \in 1..Len(streams) :
          streams[h].kind = "callback" /\ streams[h].state = "active"
    /\ nextChunk' = nextChunk + 1
    /\ IF is_listening
       THEN acPc' = "lock" /\ acChunk' = nextChunk
       ELSE UNCHANGED <<acPc, acChunk>>
    /\ UNCHANGED <<workers, buffer_lock, audio_buffer, drains, cbLog, evicted>>
    /\ UNCHANGED mainVars
    /\ UNCHANGED notAudioVars

\* _audio_callback: with self.buffer_lock
AudioCallback_Acquire ==
    /\ acPc = "lock"
    /\ buffer_lock = 0
    /\ buffer_lock' = -1      \* the stream's callback thread
    /\ acPc' = "locked"
    /\ UNCHANGED <<workers, acChunk, audio_buffer, nextChunk, drains, cbLog,
                   evicted>>
    /\ UNCHANGED mainVars
    /\ UNCHANGED notAudioVars

\* _audio_callback: append, evict, leave the with block, return
AudioCallback_Append ==
    /\ acPc = "locked"
    /\ LET full == Append(audio_buffer, acChunk)
           kept == EvictLoop(full, 5 * AudioSampleRate)
       IN /\ audio_buffer' = kept
          /\ evicted' = evicted \cup (SeqSet(full) \ SeqSet(kept))
    /\ buffer_lock' = 0
    /\ acPc' = "idle"
    /\ UNCHANGED <<workers, acChunk, nextChunk, drains, cbLog>>
    /\ UNCHANGED mainVars
    /\ UNCHANGED notAudioVars

WorkerAt(w, pc) == w \in 1..Len(workers) /\ workers[w].pc = pc
Goto(w, pc) == workers' = [workers EXCEPT ![w].pc = pc]

\* _listening_worker: while self.is_listening
Worker_Loop(w) ==
    /\ WorkerAt(w, "loop")
    /\ Goto(w, IF is_listening THEN "get" ELSE "done")
    /\ UNCHANGED <<acPc, acChunk, buffer_lock, audio_buffer, nextChunk, drains,
                   cbLog, evicted, callback_queue>>

\* _listening_worker: callback = self.callback_queue.get(timeout=0.1)
Worker_Get(w) ==
    /\ WorkerAt(w, "get")
    /\ \/ /\ callback_queue # <<>>
          /\ workers' = [workers EXCEPT ![w].pc = "lock",
                                         ![w].cb = Head(callback_queue)]
          /\ callback_queue' = Tail(callback_queue)
       \/ /\ callback_queue = <<>>
          /\ Goto(w, "loop")
          /\ UNCHANGED callback_queue
    /\ UNCHANGED <<acPc, acChunk, buffer_lock, audio_buffer, nextChunk, drains,
                   cbLog, evicted>>

\* Worker_Acquire entering the block without waiting for the lock
Worker_Acquire_noWait(w) ==
    /\ WorkerAt(w, "lock")
    /\ buffer_lock' = w
    /\ Goto(w, "locked")
    /\ UNCHANGED <<acPc, acChunk, audio_buffer, nextChunk, drains, cbLog,
                   evicted, callback_queue>>

\* _listening_worker: with self.buffer_lock
Worker_Acquire(w) ==
    /\ WorkerAt(w, "lock")
    /\ buffer_lock = 0
    /\ buffer_lock' = w
    /\ Goto(w, "locked")
    /\ UNCHANGED <<acPc, acChunk, audio_buffer, nextChunk, drains, cbLog,
                   evicted, callback_queue>>

\* Worker_Drain with the callback invoked after the with block is left
Worker_Drain_unlocked(w) ==
    /\ WorkerAt(w, "locked")
    /\ \/ /\ audio_buffer # <<>>
          /\ drains' = drains + 1
          /\ workers' = [workers EXCEPT ![w].pc = "call",
                                         ![w].drain = drains + 1,
                                         ![w].data = audio_buffer]
          /\ audio_buffer' = <<>>
          /\ buffer_lock' = 0
       \/ /\ audio_buffer = <<>>
          /\ buffer_lock' = 0
          /\ Goto(w, "loop")
          /\ UNCHANGED <<audio_buffer, drains>>
    /\ UNCHANGED <<acPc, acChunk, nextChunk, cbLog, evicted, callback_queue>>

\* _listening_worker: if self.audio_buffer: concatenate and clear
Worker_Drain(w) ==
    /\ WorkerAt(w, "locked")
    /\ \/ /\ audio_buffer # <<>>
          /\ drains' = drains + 1
          /\ workers' = [workers EXCEPT ![w].pc = "call",
                                         ![w].drain = drains + 1,
                                         ![w].data = audio_buffer]
          /\ audio_buffer' = <<>>
          /\ UNCHANGED buffer_lock
       \/ /\ audio_buffer = <<>>
          /\ buffer_lock' = 0
          /\ Goto(w, "loop")
          /\ UNCHANGED <<audio_buffer, drains>>
    /\ UNCHANGED <<acPc, acChunk, nextChunk, cbLog, evicted, callback_queue>>

\* _listening_worker: callback(audio_data) is entered. The callback is the
\* caller's own function ("user") or, when SonicLinkReceiver.start_listening
\* registered it, the lambda that runs _process_received_audio ("listen").
Worker_Call(w) ==
    /\ WorkerAt(w, "call")
    /\ cbLog' = Append(cbLog, [worker |-> w, cb |-> workers[w].cb,
                               drain |-> workers[w].drain,
                               data |-> workers[w].data])
    /\ \E mode \in {"user", "listen"} :
          workers' = [workers EXCEPT ![w].pc = "in_cb", ![w].mode = mode,
                                     ![w].rx = "none"]
    /\ UNCHANGED <<acPc, acChunk, buffer_lock, audio_buffer, nextChunk, drains,
                   evicted, callback_queue>>

\* _process_received_audio on the worker thread: it ignores audio_data and
\* calls receive_data, which calls AudioManager.receive. First step: receive
\* opens its stream into self.input_stream; second step: after its read loop
\* receive stops and closes whatever self.input_stream holds by then.
Worker_Receive(w) ==
    /\ WorkerAt(w, "in_cb")
    /\ workers[w].mode = "listen"
    /\ \/ /\ workers[w].rx = "none"
          /\ IF pyaudio_terminations > 0
             THEN \* pyaudio.open raises; the except clause closes the
                  \* stream input_stream holds
                  /\ workers' = [workers EXCEPT ![w].rx = "failed"]
                  /\ IF input_stream = 0 THEN UNCHANGED <<streams, input_stream>>
                     ELSE /\ streams' = CloseStream(streams, input_stream)
                          /\ \E close_raises \in BOOLEAN :
                                input_stream' =
                                  IF close_raises
                                     /\ streams[input_stream].state = "closed"
                                  THEN input_stream ELSE 0
             ELSE /\ streams' = Append(streams, Stream("blocking"))
                  /\ input_stream' = Len(streams) + 1
                  /\ workers' = [workers EXCEPT ![w].rx = "open"]
       \/ /\ workers[w].rx = "open"
          /\ IF input_stream = 0
             THEN \* None.stop_stream() raises; nothing to close
                  /\ workers' = [workers EXCEPT ![w].rx = "failed"]
                  /\ UNCHANGED <<streams, input_stream>>
             ELSE IF StopRaises(streams, input_stream)
             THEN /\ workers' = [workers EXCEPT ![w].rx = "failed"]
                  /\ streams' = CloseStream(streams, input_stream)
                  /\ \E close_raises \in BOOLEAN :
                        input_stream' = IF close_raises THEN input_stream ELSE 0
             ELSE /\ workers' = [workers EXCEPT ![w].rx = "captured"]
                  /\ streams' = CloseStream(StopStream(streams, input_stream),
                                            input_stream)
                  /\ input_stream' = 0
    /\ UNCHANGED <<acPc, acChunk, buffer_lock, audio_buffer, nextChunk, drains,
                   cbLog, evicted, callback_queue>>

\* _listening_worker: the callback returns or raises; the with block is left
Worker_Return(w) ==
    /\ WorkerAt(w, "in_cb")
    /\ workers[w].mode = "listen" => workers[w].rx \in {"captured", "failed"}
    /\ buffer_lock' = IF buffer_lock = w THEN 0 ELSE buffer_lock
    /\ Goto(w, "loop")
    /\ UNCHANGED <<acPc, acChunk, audio_buffer, nextChunk, drains, cbLog,
                   evicted, callback_queue>>

\* one step of worker w, a thread running _listening_worker
WorkerStep(w) ==
    /\ \/ /\ \/ Worker_Loop(w)
             \/ Worker_Get(w)
             \/ Worker_Acquire(w)
             \/ Worker_Drain(w)
             \/ Worker_Call(w)
             \/ Worker_Return(w)
          /\ UNCHANGED <<streams, input_stream>>
       \/ Worker_Receive(w)
    /\ UNCHANGED <<pyaudio_terminations, output_stream, is_listening,
                   listening_thread, mPc, mIn, nextCb, lastRet, apiCalls,
                   faults, ioVars>>
    /\ UNCHANGED notAudioVars

Worker == \E w \in 1..Len(workers) : WorkerStep(w)

---------------------------------------------------------------------------
(* core.py *)

NoKey == 0              \* recipient_public_key / private_key is None

Pending == [kind |-> "pending", val |-> <<>>]
Returned(kind, val) == [kind |-> kind, val |-> val]

\* the call is not made by a command of cli.py
NoCli == [cmd |-> "none", no_pack |-> FALSE, no_crypt |-> FALSE]

\* cli.send: the arguments of the send_data call it makes, for every choice
\* of --public-key, --no-encrypt and --no-compress
CliSend ==
    {[op |-> "send",
      pack |-> ~no_compress,
      crypt |-> ~no_encrypt,
      key |-> IF public_key # NoKey /\ ~no_encrypt THEN public_key ELSE NoKey,
      cli |-> [cmd |-> "send", no_pack |-> no_compress,
               no_crypt |-> no_encrypt]]
         : public_key \in {NoKey, 1}, no_encrypt \in BOOLEAN,
           no_compress \in BOOLEAN}

\* cli.sendfile: it calls send_file(file_path, recipient_public_key), which
\* calls send_data(data, recipient_public_key) with compress and encrypt
\* left at their defaults
CliSendFile ==
    {[op |-> "send",
      pack |-> TRUE,
      crypt |-> TRUE,
      key |-> IF public_key # NoKey /\ ~no_encrypt THEN public_key ELSE NoKey,
      cli |-> [cmd |-> "sendfile", no_pack |-> no_compress,
               no_crypt |-> no_encrypt]]
         : public_key \in {NoKey, 1}, no_encrypt \in BOOLEAN,
           no_compress \in BOOLEAN}

\* cli.receive: it calls receive_to_file or receive_text, which call
\* receive_data(timeout=timeout, private_key=private_key) with decompress and
\* decrypt left at their defaults
CliReceive ==
    {[op |-> "receive",
      pack |-> TRUE,
      crypt |-> TRUE,
      key |-> IF private_key # NoKey /\ ~no_decrypt THEN private_key ELSE NoKey,
      cli |-> [cmd |-> "receive", no_pack |-> no_decompress,
               no_crypt |-> no_decrypt]]
         : private_key \in {NoKey, 1}, no_decrypt \in BOOLEAN,
           no_decompress \in BOOLEAN}

PipeFields(pc) ==
    /\ pPc = pc
    /\ pOpts = [op |-> "none", pack |-> FALSE, crypt |-> FALSE, key |-> NoKey,
                cli |-> NoCli]
    /\ pData = <<>>
    /\ pWaveform = 0
    /\ pCalls = <<>>
    /\ pFailed = "none"
    /\ pResult = Pending

\* SonicLinkSender.__init__ / SonicLinkReceiver.__init__
PipeAbsent == PipeFields("absent")

\* a stage is invoked on the current data
Invoked(stage) == Append(pCalls, [stage |-> stage, input |-> pData])

\* the except clause of send_data / an early return of receive_data
Fail(stage, res) ==
    /\ pFailed' = stage
    /\ pResult' = Returned(res, <<>>)
    /\ pPc' = "idle"

\* SonicLinkSender.send_data is called, by a user of the class or by a
\* command of cli.py; the payload is loaded
SendData ==
    /\ pPc = "idle"
    /\ mPc = "idle"
    /\ apiCalls < MaxCalls
    /\ pOpts' \in
           {[op |-> "send", pack |-> do_compress, crypt |-> do_encrypt,
             key |-> recipient_public_key, cli |-> NoCli]
                : do_compress \in BOOLEAN, do_encrypt \in BOOLEAN,
                  recipient_public_key \in {NoKey, 1}}
           \cup CliSend \cup CliSendFile
    /\ pCalls' = <<>>
    /\ pWaveform' = 0
    /\ \/ \* bytes, text, or a file that can be read
          /\ pData' = <<"payload">>
          /\ pFailed' = "none"
          /\ pResult' = Pending
          /\ pPc' = "sd_compress"
       \/ \* a path whose file cannot be read
          /\ pData' = <<>>
          /\ Fail("load", "False")
    /\ UNCHANGED <<audioVars, notPipeVars>>

\* send_data: if compress: data = self.compressor.compress(data)
SD_Compress ==
    /\ pPc = "sd_compress"
    /\ IF pOpts.pack
       THEN /\ pCalls' = Invoked("compress")
            /\ pData' = Append(pData, "compress")
       ELSE UNCHANGED <<pCalls, pData>>
    /\ pPc' = "sd_encrypt"
    /\ UNCHANGED <<pOpts, pWaveform, pFailed, pResult>>
    /\ UNCHANGED <<audioVars, notPipeVars>>

\* send_data: if encrypt and recipient_public_key: data = self.crypto.encrypt(..)
SD_Encrypt ==
    /\ pPc = "sd_encrypt"
    /\ IF pOpts.crypt /\ pOpts.key # NoKey
       THEN /\ pCalls' = Invoked("encrypt")
            /\ \/ /\ pData' = Append(pData, "encrypt")
                  /\ pPc' = "sd_modulate"
                  /\ UNCHANGED <<pFailed, pResult>>
               \/ \* encrypt raises (a key that does not load)
                  /\ Fail("encrypt", "False")
                  /\ UNCHANGED pData
       ELSE /\ pPc' = "sd_modulate"
            /\ UNCHANGED <<pCalls, pData, pFailed, pResult>>
    /\ UNCHANGED <<pOpts, pWaveform>>
    /\ UNCHANGED <<audioVars, notPipeVars>>

\* send_data: waveform = self.modulator.modulate(data)
SD_Modulate ==
    /\ pPc = "sd_modulate"
    /\ pCalls' = Invoked("modulate")
    /\ \/ /\ \E n \in 1..MaxTxChunks : pWaveform' = n
          /\ pData' = Append(pData, "modulate")
          /\ pPc' = "sd_transmit"
          /\ UNCHANGED <<pFailed, pResult>>
       \/ \* modulate re-raises what it caught
          /\ Fail("modulate", "False")
          /\ UNCHANGED <<pData, pWaveform>>
    /\ UNCHANGED pOpts
    /\ UNCHANGED <<audioVars, notPipeVars>>

\* SD_Transmit returning True whatever transmit returned
SD_Transmit_alwaysTrue ==
    /\ pPc = "sd_transmit"
    /\ TransmitCall(pWaveform)
    /\ pCalls' = Invoked("transmit")
    /\ pResult' = Returned("True", <<>>)
    /\ pFailed' = IF lastRet'.res = "True" THEN "none" ELSE "transmit"
    /\ pPc' = "idle"
    /\ UNCHANGED <<pOpts, pData, pWaveform>>
    /\ UNCHANGED notPipeVars

\* send_data: success = self.audio.transmit(waveform); return success
SD_Transmit ==
    /\ pPc = "sd_transmit"
    /\ TransmitCall(pWaveform)
    /\ pCalls' = Invoked("transmit")
    /\ pResult' = Returned(lastRet'.res, <<>>)
    /\ pFailed' = IF lastRet'.res = "True" THEN "none" ELSE "transmit"
    /\ pPc' = "idle"
    /\ UNCHANGED <<pOpts, pData, pWaveform>>
    /\ UNCHANGED notPipeVars

\* SonicLinkReceiver.receive_data is called
ReceiveData ==
    /\ pPc = "idle"
    /\ mPc = "idle"
    /\ apiCalls < MaxCalls
    /\ pOpts' \in
           {[op |-> "receive", pack |-> do_decompress, crypt |-> do_decrypt,
             key |-> private_key, cli |-> NoCli]
                : do_decompress \in BOOLEAN, do_decrypt \in BOOLEAN,
                  private_key \in {NoKey, 1}}
           \cup CliReceive
    /\ pCalls' = <<>>
    /\ pWaveform' = 0
    /\ pData' = <<>>
    /\ pFailed' = "none"
    /\ pResult' = Pending
    /\ pPc' = "rd_receive"
    /\ UNCHANGED <<audioVars, notPipeVars>>

\* receive_data: audio_data = self.audio.receive(timeout); None check
RD_Receive ==
    /\ pPc = "rd_receive"
    /\ ReceiveCall
    /\ pCalls' = Invoked("receive")
    /\ IF lastRet'.res = "waveform"
       THEN /\ pData' = <<"receive">>
            /\ pPc' = "rd_demodulate"
            /\ UNCHANGED <<pFailed, pResult>>
       ELSE /\ Fail("receive", "None")
            /\ UNCHANGED pData
    /\ UNCHANGED <<pOpts, pWaveform>>
    /\ UNCHANGED notPipeVars

\* what a stage of receive_data can do: return bytes, return None, raise
StageOutcomes == {"bytes", "None", "raise"}

\* RD_Demodulate without the None check after the call
RD_Demodulate_noNoneCheck ==
    /\ pPc = "rd_demodulate"
    /\ pCalls' = Invoked("demodulate")
    /\ \E outcome \in StageOutcomes :
          IF outcome # "raise"
          THEN /\ pData' = Append(pData, "demodulate")
               /\ pPc' = "rd_decrypt"
               /\ pFailed' = IF outcome = "None" THEN "demodulate" ELSE pFailed
               /\ UNCHANGED pResult
          ELSE /\ Fail("demodulate", "None")
               /\ UNCHANGED pData
    /\ UNCHANGED <<pOpts, pWaveform>>
    /\ UNCHANGED <<audioVars, notPipeVars>>

\* receive_data: data = self.demodulator.demodulate(audio_data); None check
RD_Demodulate ==
    /\ pPc = "rd_demodulate"
    /\ pCalls' = Invoked("demodulate")
    /\ \E outcome \in StageOutcomes :
          IF outcome = "bytes"
          THEN /\ pData' = Append(pData, "demodulate")
               /\ pPc' = "rd_decrypt"
               /\ UNCHANGED <<pFailed, pResult>>
          ELSE /\ Fail("demodulate", "None")
               /\ UNCHANGED pData
    /\ UNCHANGED <<pOpts, pWaveform>>
    /\ UNCHANGED <<audioVars, notPipeVars>>

\* receive_data: if decrypt and private_key: data = self.crypto.decrypt(..)
RD_Decrypt ==
    /\ pPc = "rd_decrypt"
    /\ IF pOpts.crypt /\ pOpts.key # NoKey
       THEN /\ pCalls' = Invoked("decrypt")
            /\ \E outcome \in StageOutcomes :
                  IF outcome = "bytes"
                  THEN /\ pData' = Append(pData, "decrypt")
                       /\ pPc' = "rd_decompress"
                       /\ UNCHANGED <<pFailed, pResult>>
                  ELSE /\ Fail("decrypt", "None")
                       /\ UNCHANGED pData
       ELSE /\ pPc' = "rd_decompress"
            /\ UNCHANGED <<pCalls, pData, pFailed, pResult>>
    /\ UNCHANGED <<pOpts, pWaveform>>
    /\ UNCHANGED <<audioVars, notPipeVars>>

\* receive_data: if decompress: data = self.compressor.decompress(data);
\* return data
RD_Decompress ==
    /\ pPc = "rd_decompress"
    /\ IF pOpts.pack
       THEN /\ pCalls' = Invoked("decompress")
            /\ \E outcome \in StageOutcomes :
                  IF outcome = "bytes"
                  THEN /\ pData' = Append(pData, "decompress")
                       /\ pResult' = Returned("bytes", pData')
                       /\ pPc' = "idle"
                       /\ UNCHANGED pFailed
                  ELSE /\ Fail("decompress", "None")
                       /\ UNCHANGED pData
       ELSE /\ pResult' = Returned("bytes", pData)
            /\ pPc' = "idle"
            /\ UNCHANGED <<pCalls, pData, pFailed>>
    /\ UNCHANGED <<pOpts, pWaveform>>
    /\ UNCHANGED <<audioVars, notPipeVars>>

---------------------------------------------------------------------------
(* modulation.py *)

carrier_count == 64
BitsPerCarrier == 6         \* 64-QAM
MarkerSamples == 4          \* int(0.1 * sample_rate), scaled
SamplesPerSymbol == 3       \* int(0.01 * sample_rate), scaled
ModemMaxLen == 2            \* length of a modulated payload

\* RSCodec(255, 223): the first positional argument is nsym, the second nsize
RSCodec(variant, nsym, nsize) ==
    IF variant = "strict" /\ nsym >= nsize
    THEN Raised
    ELSE Ok([nsym |-> nsym, nsize |-> nsize])

\* Python range(i, stop, step) for step # 0
RECURSIVE PyRange(_, _, _)
PyRange(i, stop, step) ==
    IF (step > 0 /\ i < stop) \/ (step < 0 /\ i > stop)
    THEN <<i>> \o PyRange(i + step, stop, step)
    ELSE <<>>

\* reedsolo RSCodec.encode: rs_encode_msg over chunks of nsize - nsym bytes
RSEncode(codec, data) ==
    LET field_charac == 255
        parity == -1        \* a check symbol, not computed
        \* rs_encode_msg: the chunk followed by nsym check symbols
        rs_encode_msg(chunk) ==
            IF Len(chunk) + codec.nsym > field_charac THEN Raised
            ELSE Ok(chunk \o Const(codec.nsym, parity))
        RECURSIVE Chunks(_, _)
        Chunks(starts, k) ==
            IF k > Len(starts) THEN Ok(<<>>)
            ELSE LET chunk == Slice(data, starts[k],
                                    starts[k] + codec.nsize - codec.nsym)
                     head == rs_encode_msg(chunk)
                     rest == Chunks(starts, k + 1)
                 IN IF head.raised \/ rest.raised THEN Raised
                    ELSE Ok(head.val \o rest.val)
    IN IF codec.nsize = codec.nsym THEN Raised    \* range() with step 0
       ELSE Chunks(PyRange(0, Len(data), codec.nsize - codec.nsym), 1)

\* reedsolo RSCodec.decode: rs_correct_msg over chunks of nsize bytes
RSDecode(codec, data, uncorrectable) ==
    LET field_charac == 255
        \* rs_correct_msg: a chunk with zero syndromes is returned without
        \* its last nsym symbols; otherwise the decoder either corrects it to
        \* a codeword (and strips nsym symbols) or raises
        rs_correct_msg(chunk) ==
            IF Len(chunk) > field_charac THEN Raised
            ELSE IF (\E i \in 1..Len(chunk) : chunk[i] # 0) /\ uncorrectable
            THEN Raised
            ELSE Ok(Slice(chunk, 0, Len(chunk) - codec.nsym))
        RECURSIVE Chunks(_, _)
        Chunks(starts, k) ==
            IF k > Len(starts) THEN Ok(<<>>)
            ELSE LET chunk == Slice(data, starts[k], starts[k] + codec.nsize)
                     head == rs_correct_msg(chunk)
                     rest == Chunks(starts, k + 1)
                 IN IF head.raised \/ rest.raised THEN Raised
                    ELSE Ok(head.val \o rest.val)
    IN Chunks(PyRange(0, Len(data), codec.nsize), 1)

\* the table with the imaginary part outermost
ConstellationPoint_imagOutermost(index) ==
    LET levels == <<-7, -5, -3, -1, 1, 3, 5, 7>>
    IN <<levels[(index % 8) + 1], levels[(index \div 8) + 1]>>

\* qam_constellation[index] of OFDMModulator._create_qam_constellation, in
\* units of 1/sqrt(42): row-major, real part outermost
ConstellationPoint(index) ==
    LET levels == <<-7, -5, -3, -1, 1, 3, 5, 7>>
    IN <<levels[(index \div 8) + 1], levels[(index % 8) + 1]>>

\* OFDMModulator._bytes_to_bits
RECURSIVE _bytes_to_bits(_)
_bytes_to_bits(data) ==
    IF Len(data) <= 1
    THEN (IF data = <<>> THEN <<>> ELSE ByteBits(data[1]))
    ELSE LET h == Len(data) \div 2
         IN _bytes_to_bits(SubSeq(data, 1, h))
                \o _bytes_to_bits(SubSeq(data, h + 1, Len(data)))

\* OFDMModulator._bits_to_qam_symbols: one point per complete group of 6 bits
_bits_to_qam_symbols(bits) ==
    LET RECURSIVE Points(_)
        Points(i) ==
            IF i + BitsPerCarrier > Len(bits) THEN <<>>
            ELSE <<ConstellationPoint(
                       BitsToInt(Slice(bits, i, i + BitsPerCarrier)))>>
                     \o Points(i + BitsPerCarrier)
    IN Points(0)

\* OFDMModulator._generate_ofdm_symbol. One sample of a waveform is its
\* amplitude and, for the first sample of an OFDM symbol, the points the
\* symbol was generated from: the IFFT, the real part and the resampling are
\* not computed.
_generate_ofdm_symbol(symbol) ==
    LET RECURSIVE Samples(_)
        Samples(j) ==
            IF j > SamplesPerSymbol THEN <<>>
            ELSE <<[amp |-> ((2 * j) % 3) - 1,
                     pts |-> IF j = 1 THEN symbol ELSE <<>>]>>
                     \o Samples(j + 1)
    IN Samples(1)

\* OFDMModulator._generate_ofdm_waveform
RECURSIVE _generate_ofdm_waveform(_)
_generate_ofdm_waveform(symbols) ==
    IF symbols = <<>> THEN <<>>
    ELSE _generate_ofdm_symbol(Head(symbols))
             \o _generate_ofdm_waveform(Tail(symbols))

\* the marker tone: sin(2 pi 17500 n / 48000) for n = 0, 1, 2, ..., times 4
\* and rounded, times sign
RECURSIVE MarkerAmps(_, _)
MarkerAmps(n, sign) ==
    LET table == <<0, 3, -4, 2, 1, -4, 4, -2>>
    IN IF n = 0 THEN <<>>
       ELSE Append(MarkerAmps(n - 1, sign),
                   sign * table[((n - 1) % Len(table)) + 1])

RECURSIVE AsSamples(_)
AsSamples(amps) ==
    IF amps = <<>> THEN <<>>
    ELSE <<[amp |-> Head(amps), pts |-> <<>>]>> \o AsSamples(Tail(amps))

\* OFDMModulator._add_markers
_add_markers(waveform) ==
    AsSamples(MarkerAmps(MarkerSamples, 1)) \o waveform
        \o AsSamples(MarkerAmps(MarkerSamples, -1))

\* OFDMModulator.modulate
modulate(data, codec) ==
    LET encoded_data == RSEncode(codec, data) IN
    IF encoded_data.raised THEN Raised
    ELSE LET bits == _bytes_to_bits(encoded_data.val)
             bits_per_symbol == carrier_count * BitsPerCarrier
             padding_length ==
                 (bits_per_symbol - (Len(bits) % bits_per_symbol))
                     % bits_per_symbol
             padded == bits \o Const(padding_length, 0)
             RECURSIVE Group(_)
             Group(i) ==
                 IF i >= Len(padded) THEN <<>>
                 ELSE <<_bits_to_qam_symbols(
                            Slice(padded, i, i + bits_per_symbol))>>
                          \o Group(i + bits_per_symbol)
         IN Ok(_add_markers(_generate_ofdm_waveform(Group(0))))

RECURSIVE Amps(_)
Amps(audio) ==
    IF audio = <<>> THEN <<>> ELSE <<Head(audio).amp>> \o Amps(Tail(audio))

\* np.correlate(a, v, mode='valid'): raises on an empty argument; when v is
\* the longer one numpy swaps the arguments and reverses the result
Correlate(a, v) ==
    LET RECURSIVE Reverse(_)
        Reverse(q) ==
            IF q = <<>> THEN <<>> ELSE Append(Reverse(Tail(q)), Head(q))
        \* sum over i of long[k + i] * short[i], k counted from 0
        RECURSIVE Dot(_, _, _, _)
        Dot(long, short, k, i) ==
            IF i > Len(short) THEN 0
            ELSE long[k + i] * short[i] + Dot(long, short, k, i + 1)
        RECURSIVE Valid(_, _, _)
        Valid(long, short, k) ==
            IF k > Len(long) - Len(short) THEN <<>>
            ELSE <<Dot(long, short, k, 1)>> \o Valid(long, short, k + 1)
    IN IF a = <<>> \/ v = <<>> THEN Raised
       ELSE IF Len(a) >= Len(v) THEN Ok(Valid(a, v, 0))
       ELSE Ok(Reverse(Valid(v, a, 0)))

\* np.argmax(np.abs(c)): the first position of the maximum, counted from 0
ArgMaxAbs(c) ==
    LET Abs(x) == IF x < 0 THEN -x ELSE x
        RECURSIVE From(_, _)
        From(i, best) ==
            IF i > Len(c) THEN best - 1
            ELSE From(i + 1, IF Abs(c[i]) > Abs(c[best]) THEN i ELSE best)
    IN From(2, 1)

\* OFDMDemodulator._extract_data_portion: raised, or Ok(None), or Ok(samples)
_extract_data_portion(audio_data) ==
    LET marker_samples == MarkerSamples
        marker == MarkerAmps(marker_samples, 1)
        correlation == Correlate(Amps(audio_data), marker)
    IN IF correlation.raised THEN Raised
       ELSE LET start_idx == ArgMaxAbs(correlation.val)
                end_marker == MarkerAmps(marker_samples, -1)
                tail == Slice(audio_data, start_idx, Len(audio_data))
                correlation2 == Correlate(Amps(tail), end_marker)
            IN IF start_idx < 0 THEN Ok(NoneVal)
               ELSE IF correlation2.raised THEN Raised
               ELSE LET end_idx == ArgMaxAbs(correlation2.val)
                        data_start == start_idx + marker_samples
                        data_end == start_idx + end_idx
                    IN IF end_idx < 0 THEN Ok(NoneVal)
                       ELSE IF data_end <= data_start THEN Ok(NoneVal)
                       ELSE Ok([kind |-> "samples",
                                val |-> Slice(audio_data, data_start, data_end)])

\* OFDMDemodulator._extract_ofdm_symbol: carrier_count frequency bins. What
\* the FFT of a received block yields is not computed: it is either the points
\* the block was generated from (fft = "ideal"), or nothing recognisable, all
\* bins zero (fft = "garbled").
_extract_ofdm_symbol(symbol_data, fft) ==
    IF fft = "ideal" /\ Len(symbol_data[1].pts) = carrier_count
    THEN symbol_data[1].pts
    ELSE Const(carrier_count, <<0, 0>>)

\* OFDMDemodulator._extract_ofdm_symbols
RECURSIVE _extract_ofdm_symbols(_, _, _)
_extract_ofdm_symbols(data_portion, i, fft) ==
    IF i >= Len(data_portion) THEN <<>>
    ELSE IF i + SamplesPerSymbol <= Len(data_portion)
    THEN <<_extract_ofdm_symbol(
               Slice(data_portion, i, i + SamplesPerSymbol), fft)>>
             \o _extract_ofdm_symbols(data_portion, i + SamplesPerSymbol, fft)
    ELSE _extract_ofdm_symbols(data_portion, i + SamplesPerSymbol, fft)

\* qam_constellation[index] of OFDMDemodulator._create_qam_constellation
DemodulatorConstellationPoint(index) ==
    LET real_values == <<-7, -5, -3, -1, 1, 3, 5, 7>>
        imag_values == <<-7, -5, -3, -1, 1, 3, 5, 7>>
    IN <<real_values[(index \div Len(imag_values)) + 1],
         imag_values[(index % Len(imag_values)) + 1]>>

\* OFDMDemodulator._qam_symbols_to_bits
RECURSIVE _qam_symbols_to_bits(_)
_qam_symbols_to_bits(symbols) ==
    LET Distance2(p, q) ==
            (p[1] - q[1]) * (p[1] - q[1]) + (p[2] - q[2]) * (p[2] - q[2])
        \* np.argmin(np.abs(self.qam_constellation - symbol)): the first
        \* closest point
        Closest(symbol) ==
            CHOOSE i \in 0..(carrier_count - 1) :
                \A j \in 0..(carrier_count - 1) :
                    LET di == Distance2(DemodulatorConstellationPoint(i),
                                        symbol)
                        dj == Distance2(DemodulatorConstellationPoint(j),
                                        symbol)
                    IN di < dj \/ (di = dj /\ i <= j)
    IN IF Len(symbols) = 0 THEN <<>>
       ELSE IF Len(symbols) = 1
       THEN IntBits(Closest(symbols[1]), BitsPerCarrier)
       ELSE LET h == Len(symbols) \div 2
            IN _qam_symbols_to_bits(SubSeq(symbols, 1, h))
                   \o _qam_symbols_to_bits(
                          SubSeq(symbols, h + 1, Len(symbols)))

\* OFDMDemodulator._demodulate_symbols
RECURSIVE _demodulate_symbols(_)
_demodulate_symbols(symbols) ==
    IF symbols = <<>> THEN <<>>
    ELSE _qam_symbols_to_bits(Head(symbols)) \o _demodulate_symbols(Tail(symbols))

\* OFDMDemodulator._bits_to_bytes
_bits_to_bytes(bits) ==
    LET RECURSIVE Pack(_)
        Pack(b) ==
            IF Len(b) <= 8
            THEN (IF b = <<>> THEN <<>> ELSE <<BitsToInt(b)>>)
            ELSE LET h == 8 * ((Len(b) \div 8) \div 2)
                 IN Pack(SubSeq(b, 1, h)) \o Pack(SubSeq(b, h + 1, Len(b)))
    IN IF Len(bits) % 8 # 0 THEN NoneVal ELSE Bytes(Pack(bits))

\* demodulate that takes the whole recording for the data portion when no
\* frame was found
demodulate_noPortionCheck(audio_data, codec, fft, uncorrectable) ==
    LET data_portion == _extract_data_portion(audio_data)
        found == ~data_portion.raised /\ data_portion.val # NoneVal
        portion ==
            IF data_portion.raised THEN [state |-> "raised", amps |-> <<>>]
            ELSE IF ~found THEN [state |-> "none", amps |-> <<>>]
            ELSE [state |-> "samples", amps |-> Amps(data_portion.val.val)]
        symbols ==
            IF data_portion.raised THEN <<>>
            ELSE _extract_ofdm_symbols(
                     IF found THEN data_portion.val.val ELSE audio_data,
                     0, fft)
        bits == _demodulate_symbols(symbols)
        data == _bits_to_bytes(bits)
        decoded_data == RSDecode(codec, data.val, uncorrectable)
    IN [portion |-> portion,
        symbols |-> Len(symbols),
        val |-> IF data_portion.raised THEN NoneVal
                ELSE IF symbols = <<>> THEN NoneVal
                ELSE IF bits = <<>> THEN NoneVal
                ELSE IF data = NoneVal \/ data.val = <<>> THEN NoneVal
                ELSE IF decoded_data.raised THEN data
                ELSE Bytes(decoded_data.val)]

\* OFDMDemodulator.demodulate: what it returns (val), what
\* _extract_data_portion found (portion) and how many OFDM symbols
\* _extract_ofdm_symbols extracted (symbols)
demodulate(audio_data, codec, fft, uncorrectable) ==
    LET data_portion == _extract_data_portion(audio_data)
        found == ~data_portion.raised /\ data_portion.val # NoneVal
        portion ==
            IF data_portion.raised THEN [state |-> "raised", amps |-> <<>>]
            ELSE IF ~found THEN [state |-> "none", amps |-> <<>>]
            ELSE [state |-> "samples", amps |-> Amps(data_portion.val.val)]
        symbols ==
            IF found THEN _extract_ofdm_symbols(data_portion.val.val, 0, fft)
            ELSE <<>>
        bits == _demodulate_symbols(symbols)
        data == _bits_to_bytes(bits)
        decoded_data == RSDecode(codec, data.val, uncorrectable)
    IN [portion |-> portion,
        symbols |-> Len(symbols),
        val |-> IF ~found THEN NoneVal
                ELSE IF symbols = <<>> THEN NoneVal
                ELSE IF bits = <<>> THEN NoneVal
                ELSE IF data = NoneVal \/ data.val = <<>> THEN NoneVal
                ELSE IF decoded_data.raised THEN data
                ELSE Bytes(decoded_data.val)]

NotBuilt == [state |-> "none", rs_codec |-> [nsym |-> 0, nsize |-> 0]]
NotCalled == [state |-> "none", val |-> <<>>]
Outcome(r) == [state |-> IF r.raised THEN "raised" ELSE "returned", val |-> r.val]

ModemFields ==
    /\ modulator = NotBuilt
    /\ demodulator = NotBuilt
    /\ modData = <<>>
    /\ modWaveform = NotCalled
    /\ demChannel = [kind |-> "none", audio |-> <<>>, raw |-> <<>>,
                   fft |-> "none", uncorrectable |-> FALSE]
    /\ demResult = NoneVal
    /\ demTrace = [portion |-> [state |-> "none", amps |-> <<>>],
                  symbols |-> 0]
    /\ fecEncoded = NotCalled
    /\ fecDecoded = NotCalled

ModemAbsent == rsVariant = "none" /\ ModemFields

\* the __init__ of either class: self.rs_codec = RSCodec(255, 223)
Built(codec) ==
    [state |-> IF codec.raised THEN "raised" ELSE "ok",
     rs_codec |-> IF codec.raised THEN NotBuilt.rs_codec ELSE codec.val]

\* OFDMModulator.__init__
NewModulator ==
    /\ modulator = NotBuilt
    /\ modulator' = Built(RSCodec(rsVariant, 255, 223))
    /\ UNCHANGED <<rsVariant, demodulator, modData, modWaveform, demChannel,
                   demResult, demTrace, fecEncoded, fecDecoded>>
    /\ UNCHANGED notModemVars

\* OFDMDemodulator.__init__
NewDemodulator ==
    /\ demodulator = NotBuilt
    /\ demodulator' = Built(RSCodec(rsVariant, 255, 223))
    /\ UNCHANGED <<rsVariant, modulator, modData, modWaveform, demChannel,
                   demResult, demTrace, fecEncoded, fecDecoded>>
    /\ UNCHANGED notModemVars

\* OFDMModulator.modulate(data)
Modulate ==
    /\ modulator.state = "ok"
    /\ \E data \in SeqsUpTo({0, 65, 255}, ModemMaxLen) :
          /\ modData' = data
          /\ fecEncoded' = Outcome(RSEncode(modulator.rs_codec, data))
          /\ modWaveform' = Outcome(modulate(data, modulator.rs_codec))
    /\ fecDecoded' = NotCalled
    /\ demChannel' = [kind |-> "none", audio |-> <<>>, raw |-> <<>>,
                    fft |-> "none", uncorrectable |-> FALSE]
    /\ demResult' = NoneVal
    /\ demTrace' = [portion |-> [state |-> "none", amps |-> <<>>],
                   symbols |-> 0]
    /\ UNCHANGED <<rsVariant, modulator, demodulator>>
    /\ UNCHANGED notModemVars

\* OFDMDemodulator.demodulate(audio_data). What the microphone recorded is
\* the modulated waveform sample for sample (identity), or a recording that
\* is not a modulated waveform (silence, a lone marker, two start markers, a
\* start marker followed at once by an end marker, a framed block of noise
\* between silence), or the frame of the OFDM symbols of raw, bytes that
\* carry no check symbols (framed).
Demodulate ==
    /\ demodulator.state = "ok"
    /\ \E channel \in
              {[kind |-> "identity", raw |-> <<>>, fft |-> fft,
                uncorrectable |-> u]
                   : fft \in (IF modWaveform.state = "returned"
                              THEN {"ideal", "garbled"} ELSE {}),
                     u \in BOOLEAN}
              \cup {[kind |-> "recording", raw |-> amps, fft |-> "garbled",
                     uncorrectable |-> FALSE]
                        : amps \in
                            {Const(n, 0) : n \in 0..(2 * MarkerSamples)}
                            \cup
                            {MarkerAmps(MarkerSamples, 1),
                             MarkerAmps(MarkerSamples, 1)
                                 \o MarkerAmps(MarkerSamples, 1),
                             MarkerAmps(MarkerSamples, 1)
                                 \o MarkerAmps(MarkerSamples, -1),
                             <<0>> \o MarkerAmps(MarkerSamples, 1)
                                 \o <<1, -1, 0>>
                                 \o MarkerAmps(MarkerSamples, -1) \o <<0>>}}
              \cup {[kind |-> "framed", raw |-> raw, fft |-> fft,
                     uncorrectable |-> u]
                        : raw \in {<<65>>, <<0, 255>>},
                          fft \in {"ideal"}, u \in BOOLEAN} :
          LET audio_data ==
                  CASE channel.kind = "identity" -> modWaveform.val
                    [] channel.kind = "recording" -> AsSamples(channel.raw)
                    [] channel.kind = "framed" ->
                           modulate(channel.raw,
                                    [nsym |-> 0, nsize |-> 255]).val
              r == demodulate(audio_data, demodulator.rs_codec, channel.fft,
                              channel.uncorrectable)
          IN /\ demChannel' =
                    [channel EXCEPT
                         !.raw = IF channel.kind = "framed" THEN @ ELSE <<>>]
                        @@ [audio |-> Amps(audio_data)]
             /\ demResult' = r.val
             /\ demTrace' = [portion |-> r.portion, symbols |-> r.symbols]
    /\ UNCHANGED <<rsVariant, modulator, demodulator, modData, modWaveform,
                   fecEncoded, fecDecoded>>
    /\ UNCHANGED notModemVars

QamIdle == qamBits = <<>> /\ qamSymbols = <<>> /\ qamDemapped = <<>>

\* OFDMModulator._bits_to_qam_symbols(bits)
MapBits ==
    /\ qamBits # <<>>
    /\ qamSymbols = <<>>
    /\ qamSymbols' = _bits_to_qam_symbols(qamBits)
    /\ UNCHANGED <<qamBits, qamDemapped>>
    /\ UNCHANGED <<huffVars, cryptoVars, audioVars, pipeVars, modemVars>>

\* OFDMDemodulator._qam_symbols_to_bits(symbols)
DemapSymbols ==
    /\ qamSymbols # <<>>
    /\ qamDemapped = <<>>
    /\ qamDemapped' = _qam_symbols_to_bits(qamSymbols)
    /\ UNCHANGED <<qamBits, qamSymbols>>
    /\ UNCHANGED <<huffVars, cryptoVars, audioVars, pipeVars, modemVars>>

\* demodulate: decoded_data = self.rs_codec.decode(data), for the bytes the
\* modulator's codec encoded
FecDecode ==
    /\ demodulator.state = "ok"
    /\ fecEncoded.state = "returned"
    /\ \E uncorrectable \in BOOLEAN :
          fecDecoded' = Outcome(RSDecode(demodulator.rs_codec, fecEncoded.val,
                                         uncorrectable))
    /\ UNCHANGED <<rsVariant, modulator, demodulator, modData, modWaveform,
                   demChannel, demResult, demTrace, fecEncoded>>
    /\ UNCHANGED notModemVars

---------------------------------------------------------------------------
(* Specifications: one per component, the other components stay idle *)

HuffInit ==
    /\ hPc = "start"
    /\ LET \* bytes(range(lo, hi + 1))
           RECURSIVE Ascending(_, _)
           Ascending(lo, hi) ==
               IF hi = lo THEN <<lo>>
               ELSE LET mid == (hi + lo) \div 2
                    IN Ascending(lo, mid) \o Ascending(mid + 1, hi)
       IN hData \in SeqsUpTo({65, 66, 67}, HuffMaxLen)
                     \* and an input holding every byte value once
                     \cup {<<1, 0>> \o Ascending(2, 255)}
    /\ hCompressed = <<>>
    /\ hResult = NoneVal
    /\ compression_stats = [original_size |-> 0, compressed_size |-> 0]
    /\ hArg = <<>>
    /\ hCalls = 0
    /\ CryptoIdle /\ AudioAbsent /\ PipeAbsent /\ ModemAbsent /\ QamIdle
HuffNext == Compress \/ Decompress
SpecHuff == HuffInit /\ [][HuffNext]_vars

CryptoInit ==
    /\ cPc = "start"
    /\ cPlain \in SeqsUpTo({1, 16}, CryptoMaxLen)
                    \cup {Const(n, v) : n \in {15, 16, 17, 32}, v \in {16, 255}}
    /\ cPub \in KeyPairs
    /\ cPriv \in KeyPairs
    /\ cAesKey = <<>>
    /\ cIv = <<>>
    /\ cEncrypted = <<>>
    /\ cDecrypted = NoneVal
    /\ cTamper = "none"
    /\ HuffIdle /\ AudioAbsent /\ PipeAbsent /\ ModemAbsent /\ QamIdle
CryptoNext == Encrypt \/ Tamper \/ Decrypt
SpecCrypto == CryptoInit /\ [][CryptoNext]_vars

AudioInit ==
    /\ AudioConstructed
    /\ HuffIdle /\ CryptoIdle /\ PipeAbsent /\ ModemAbsent /\ QamIdle

AudioNext ==
    \/ StartListening
    \/ StopListening
    \/ StopListening_Stream
    \/ StopListening_Join
    \/ StopListening_Clear
    \/ Cleanup
    \/ Cleanup_Rest
    \/ AudioCallback
    \/ AudioCallback_Acquire
    \/ AudioCallback_Append
    \/ Worker

SpecAudio == AudioInit /\ [][AudioNext]_vars

\* every thread that can run does run; a call in progress goes on; the caller
\* is not obliged to make a further call
AudioFairness ==
    /\ \A w \in 1..MaxWorkers : WF_vars(WorkerStep(w))
    /\ WF_vars(AudioCallback_Acquire)
    /\ WF_vars(AudioCallback_Append)
    /\ WF_vars(StopListening_Stream)
    /\ WF_vars(StopListening_Join)
    /\ WF_vars(StopListening_Clear)
    /\ WF_vars(Cleanup_Rest)

SpecAudioFair == SpecAudio /\ AudioFairness

\* the installed reedsolo is either a release whose RSCodec(nsym, nsize) checks
\* nsym < nsize ("strict") or one that does not ("lax")
ModemInit ==
    /\ rsVariant \in {"strict", "lax"}
    /\ ModemFields
    /\ HuffIdle /\ CryptoIdle /\ AudioAbsent /\ PipeAbsent /\ QamIdle
ModemNext ==
    \/ NewModulator
    \/ NewDemodulator
    \/ Modulate
    \/ Demodulate
    \/ FecDecode
SpecModem == ModemInit /\ [][ModemNext]_vars

\* the 64-QAM mapping of one or two groups of 6 bits
QamInit ==
    /\ qamBits \in {IntBits(i, BitsPerCarrier) : i \in 0..63}
                    \cup {IntBits(i, BitsPerCarrier) \o IntBits(63 - i, BitsPerCarrier)
                              : i \in {0, 7, 8, 56}}
    /\ qamSymbols = <<>>
    /\ qamDemapped = <<>>
    /\ HuffIdle /\ CryptoIdle /\ AudioAbsent /\ PipeAbsent /\ ModemAbsent
QamNext == MapBits \/ DemapSymbols
SpecQam == QamInit /\ [][QamNext]_vars

PipeInit ==
    /\ PipeFields("idle") /\ AudioConstructed
    /\ HuffIdle /\ CryptoIdle /\ ModemAbsent /\ QamIdle
PipeNext ==
    \/ SendData
    \/ SD_Compress
    \/ SD_Encrypt
    \/ SD_Modulate
    \/ SD_Transmit
    \/ ReceiveData
    \/ RD_Receive
    \/ RD_Demodulate
    \/ RD_Decrypt
    \/ RD_Decompress
SpecPipe == PipeInit /\ [][PipeNext]_vars

---------------------------------------------------------------------------
(* Properties *)

\* C2: for every byte sequence b, decompress(compress(b)) == b; the zero
\* bits that pad the last byte never decode into extra output bytes.
C2_HuffmanRoundTrip ==
    (hPc = "decompressed" /\ hArg = hCompressed) => hResult = Bytes(hData)

\* C3: decrypt(encrypt(b, pub), priv) == b for a matching key pair, and the
\* envelope is [2-byte big-endian wrapped-key length][wrapped key][16-byte
\* IV][ciphertext] with a ciphertext that is a positive multiple of 16 bytes.
C3_EnvelopeRoundTrip ==
    (cPc = "decrypted" /\ cPriv = cPub /\ cTamper = "none") =>
        /\ cDecrypted = Bytes(cPlain)
        /\ LET wrapped_len == FromBigEndian(SubSeq(cEncrypted, 1, 2))
               ct_len == Len(cEncrypted) - 2 - wrapped_len - iv_size
           IN /\ wrapped_len = rsa_key_size \div 8
              /\ SubSeq(cEncrypted, 3 + wrapped_len, 2 + wrapped_len + iv_size) = cIv
              /\ ct_len = AESBlockSize * ((Len(cPlain) \div AESBlockSize) + 1)

C3_Witness ==
    /\ cPc = "decrypted"
    /\ cPriv = cPub
    /\ cTamper = "none"
    /\ Len(cPlain) = 16
    /\ cDecrypted = Bytes(cPlain)

\* C7: while listening stays active, under fair scheduling, the worker keeps
\* draining the buffer to the registered callback: a buffer that holds chunks
\* is drained again, after the first drain as before it, and every chunk the
\* audio callback appended is eventually passed to the callback unless the cap
\* evicts it.
C7_WorkerKeepsDraining ==
    /\ \A d \in 0..MaxChunks :
          (is_listening /\ audio_buffer # <<>> /\ drains = d)
              ~> (drains > d \/ ~is_listening)
    /\ \A c \in 1..MaxChunks :
          (is_listening /\ c \in SeqSet(audio_buffer))
              ~> \/ \E i \in 1..Len(cbLog) : c \in SeqSet(cbLog[i].data)
                 \/ c \in evicted
                 \/ ~is_listening

\* C8: once stop_listening has run to its end after a successful
\* start_listening, is_listening is False, input_stream and listening_thread
\* are None, the stream that start_listening opened has been stopped and
\* closed, and the callback queue and the audio buffer are both empty.
C8_StopLeavesNothing ==
    (mPc = "idle" /\ lastRet = Ret("stop_listening", "stopped")) =>
        /\ ~is_listening
        /\ input_stream = 0
        /\ listening_thread = 0
        /\ streams[Len(streams)] =
              [kind |-> "callback", state |-> "closed", stops |-> 1, closes |-> 1]
        /\ callback_queue = <<>>
        /\ audio_buffer = <<>>

\* C9: over any sequence of calls, no stream is stopped or closed more than
\* once and the audio subsystem is terminated at most once.
C9_ReleasedAtMostOnce ==
    /\ pyaudio_terminations <= 1
    /\ \A h \in 1..Len(streams) :
          streams[h].stops <= 1 /\ streams[h].closes <= 1

\* C10: at most one invocation of the registered callback is executing at any
\* time, and the callbacks are invoked in the order of the drain events that
\* produced them.
C10_OneCallbackInDrainOrder ==
    /\ Cardinality({w \in 1..Len(workers) : workers[w].pc = "in_cb"}) <= 1
    /\ \A i, j \in 1..Len(cbLog) : i < j => cbLog[i].drain < cbLog[j].drain

C10_Witness ==
    \E w1, w2 \in 1..Len(workers) :
        /\ workers[w1].pc = "in_cb"
        /\ workers[w2].pc = "lock"
        /\ workers[w2].cb # 0
        /\ cbLog # <<>>

C6_TrueIffEveryChunkWritten ==
    (pOpts.op = "send" /\ pPc = "idle") =>
        LET n == Len(pCalls) IN
        /\ pFailed # "none" => pResult = Returned("False", <<>>)
        /\ pResult = Returned("True", <<>>) <=>
              /\ n >= 1
              /\ pCalls[n].stage = "transmit"
              /\ txWritten = pWaveform

\* C6 as amended: the same order and data flow; send_data returns True exactly
\* when transmit returned True, and then every chunk was written and the
\* stream was stopped and closed; in every other case it returns False.
C6_SendStagesAndResult ==
    pOpts.op = "send" =>
        LET expected ==
                (IF pOpts.pack THEN <<"compress">> ELSE <<>>)
                    \o (IF pOpts.crypt /\ pOpts.key # NoKey
                        THEN <<"encrypt">> ELSE <<>>)
                    \o <<"modulate", "transmit">>
            n == Len(pCalls)
        IN /\ n <= Len(expected)
           /\ \A i \in 1..n :
                 /\ pCalls[i].stage = expected[i]
                 /\ pCalls[i].input = <<"payload">> \o SubSeq(expected, 1, i - 1)
           /\ pPc # "idle" => pFailed = "none" /\ pResult = Pending
           /\ pPc = "idle" =>
                 /\ pResult \in {Returned("True", <<>>), Returned("False", <<>>)}
                 /\ pFailed # "none" => pResult = Returned("False", <<>>)
                 /\ pResult = Returned("True", <<>>) <=>
                       /\ n = Len(expected)
                       /\ lastRet = Ret("transmit", "True")
                 /\ pResult = Returned("True", <<>>) =>
                       /\ txWritten = pWaveform
                       /\ streams[Len(streams)] =
                             [kind |-> "output", state |-> "closed",
                              stops |-> 1, closes |-> 1]

C6_Witness ==
    /\ pOpts.op = "send"
    /\ pOpts.pack /\ pOpts.crypt /\ pOpts.key = 1
    /\ pPc = "idle"
    /\ pResult = Returned("True", <<>>)
    /\ pWaveform >= 2
    /\ txWritten = pWaveform
    /\ Len(pCalls) = 4

\* C1: over an identity channel demodulate(modulate(b)) returns exactly b for
\* every byte sequence b: neither the zero bits that fill the last OFDM symbol
\* nor the markers show in the result, and empty b comes back as empty bytes.
C1_ModemRoundTrip ==
    demChannel.kind = "identity" => demResult = Bytes(modData)

\* C4: the codec the modulator and the demodulator build is a systematic
\* (255, 223) block code: encode returns the data followed by 32 parity bytes
\* for each block of up to 223 data bytes, and decode(encode(b)) = b.
C4_FecIsSystematic255_223 ==
    /\ fecEncoded.state # "none" =>
          /\ fecEncoded.state = "returned"
          /\ Len(fecEncoded.val) =
                Len(modData) + (255 - 223) * ((Len(modData) + 222) \div 223)
          /\ Len(modData) <= 223 =>
                SubSeq(fecEncoded.val, 1, Len(modData)) = modData
    /\ fecDecoded.state # "none" =>
          fecDecoded = [state |-> "returned", val |-> modData]

\* C11: receive ends on silence only when more than 10 chunks have been
\* accumulated and the last accumulated chunk and the chunk read after it both
\* have a mean-square energy below 100; it then returns the accumulated audio.
\* Hence a quiet chunk followed by a loud one does not end reception, and no
\* chunk among the first 10 does.
C11_EndsOnTwoQuietChunks ==
    (lastRet.op = "receive" /\ rxRun.ended = "silence") =>
        LET last == rxFrames[Len(rxFrames)]
            RECURSIVE SumSq(_)
            SumSq(samples) ==
                IF samples = <<>> THEN 0
                ELSE Head(samples) * Head(samples) + SumSq(Tail(samples))
            MeanSquareBelow100(samples) ==
                SumSq(samples) < 100 * Len(samples)
        IN /\ Len(rxFrames) > 10
           /\ rxReads = last + 1
           /\ MeanSquareBelow100(ReadChunk(rxRun.src, last))
           /\ MeanSquareBelow100(ReadChunk(rxRun.src, last + 1))
           /\ lastRet = Ret("receive", "waveform")

\* C12: decrypt returns None, and raises nothing, for every envelope that ends
\* before the end of its IV, whose ciphertext is empty or not a multiple of 16
\* bytes long, whose plaintext padding is invalid, or whose wrapped key was made
\* for another key pair.
C12_MalformedEnvelopeGivesNone ==
    LET key_length == FromBigEndian(Slice(cEncrypted, 0, 2))
        header_size == 2 + key_length + iv_size
        ct_len == Len(cEncrypted) - header_size
        truncated == Len(cEncrypted) < header_size
        bad_length == ct_len <= 0 \/ ct_len % AESBlockSize # 0
    IN (/\ cPc = "decrypted"
        /\ truncated \/ bad_length \/ cTamper = "padding" \/ cPriv # cPub)
           => cDecrypted = NoneVal

C12_Witness ==
    /\ cPc = "decrypted"
    /\ cPriv = cPub
    /\ cTamper = "padding"
    /\ Len(cEncrypted) = 2 + (rsa_key_size \div 8) + iv_size + 2 * AESBlockSize
    /\ cDecrypted = NoneVal

\* C13: when the bytes recovered from the OFDM symbols fail FEC decoding,
\* demodulate returns those bytes as they are: the recording of a frame that
\* carries bytes the codec cannot correct yields the bytes, not None.
C13_FecFailureReturnsRawBytes ==
    (/\ demChannel.kind = "framed"
     /\ demChannel.fft = "ideal"
     /\ demChannel.uncorrectable) =>
        /\ demResult # NoneVal
        /\ Slice(demResult.val, 0, Len(demChannel.raw)) = demChannel.raw

\* C14: demodulate returns None without extracting any OFDM symbol whenever
\* frame detection locates no data portion, and it locates none in a recording
\* of a start marker followed at once by an end marker.
C14_NoFrameGivesNoneWithoutSymbols ==
    /\ (demChannel.kind # "none" /\ demTrace.portion.state = "none") =>
           (demResult = NoneVal /\ demTrace.symbols = 0)
    /\ demChannel.audio =
           MarkerAmps(MarkerSamples, 1) \o MarkerAmps(MarkerSamples, -1) =>
           (/\ demTrace.portion.state = "none"
            /\ demResult = NoneVal
            /\ demTrace.symbols = 0)

C14_Witness ==
    /\ demChannel.kind = "recording"
    /\ demChannel.audio =
           MarkerAmps(MarkerSamples, 1) \o MarkerAmps(MarkerSamples, -1)
    /\ demTrace.portion.state = "none"
    /\ demResult = NoneVal

\* C20: for a recording of a start marker, a non-empty data region and an end
\* marker, frame detection returns exactly the samples between the markers.
C20_FrameDetectionReturnsDataRegion ==
    demChannel.kind = "framed" =>
        demTrace.portion =
            [state |-> "samples",
             amps |-> SubSeq(demChannel.audio, MarkerSamples + 1,
                             Len(demChannel.audio) - MarkerSamples)]

\* C15: decompress returns None for every non-empty input whose first byte
\* declares more 5-byte table entries than the bytes after it contain, also
\* when only the frequency of the last declared entry is missing or cut short.
C15_TruncatedHeaderGivesNone ==
    (/\ hPc = "decompressed"
     /\ hArg # <<>>
     /\ Len(hArg) < 1 + 5 * hArg[1]) => hResult = NoneVal

\* C16: get_stats reports the sizes of the compressor's most recent call:
\* after a compress the lengths of its argument and of its result, after a
\* decompress that returned data the lengths of the data and of its argument.
C16_StatsReportLastCall ==
    /\ hPc = "compressed" =>
           get_stats(compression_stats) =
               [original_size |-> Len(hArg),
                compressed_size |-> Len(hCompressed)]
    /\ (hPc = "decompressed" /\ hResult # NoneVal) =>
           get_stats(compression_stats) =
               [original_size |-> Len(hResult.val),
                compressed_size |-> Len(hArg)]

\* C18: the tree decompress rebuilds from the header compress wrote assigns
\* every symbol the code compress used, ties between equal frequencies
\* included.
C18_RebuiltTreeAssignsSameCodes ==
    (/\ hPc = "decompressed"
     /\ hArg = hCompressed
     /\ hData # <<>>
     /\ ~_create_header(CounterOf(hData)).raised) =>
        LET sent == _build_tree(CounterOf(hData))
            header == _extract_header(hArg)
            rebuilt == _build_tree(header.counter)
        IN /\ ~header.raised
           /\ _generate_codes(rebuilt.nodes, rebuilt.root, <<>>)
                  = _generate_codes(sent.nodes, sent.root, <<>>)

C18_Witness ==
    /\ hPc = "decompressed"
    /\ hArg = hCompressed
    /\ hData = <<65, 66, 67>>
    /\ hResult # NoneVal

\* C17: for every constellation index i in 0..63, the point the modulator maps
\* the 6 bits of i (most significant first) to is the modulator's table entry
\* i, the demodulator's nearest-point demapping of it gives the 6 bits of i
\* back, and the two tables are equal entry by entry.
C17_ConstellationRoundTrip ==
    /\ \A i \in 0..63 :
          ConstellationPoint(i) = DemodulatorConstellationPoint(i)
    /\ (Len(qamBits) = BitsPerCarrier /\ qamSymbols # <<>>) =>
          qamSymbols = <<ConstellationPoint(BitsToInt(qamBits))>>
    /\ qamDemapped # <<>> => qamDemapped = qamBits

C17_Witness ==
    /\ qamBits = IntBits(57, BitsPerCarrier)
    /\ qamSymbols = <<<<7, -5>>>>
    /\ qamDemapped = qamBits

\* C19: a pipeline started by send or sendfile with --no-compress never runs
\* the compression stage, and one started by receive with --no-decompress
\* never runs the decompression stage.
C19_SkipFlagsHonoured ==
    pOpts.cli.no_pack =>
        \A i \in 1..Len(pCalls) :
            pCalls[i].stage \notin {"compress", "decompress"}

---------------------------------------------------------------------------
(* C21: every execution of _audio_callback while listening leaves at most
   5 * sample_rate samples in audio_buffer; what it leaves is the buffer it
   found plus the new chunk with chunks dropped from the old end only, and
   the chunk it appended is the last one of the buffer. *)
C21_BufferCapKeepsNewest ==
    [][(acPc = "locked" /\ acPc' = "idle") =>
          LET full == Append(audio_buffer, acChunk) IN
          /\ Len(audio_buffer') * AudioChunkSize <= 5 * AudioSampleRate
          /\ audio_buffer' # <<>>
          /\ audio_buffer'[Len(audio_buffer')] = acChunk
          /\ \E k \in 0..Len(full) :
                audio_buffer' = SubSeq(full, k + 1, Len(full))]_vars

\* the callback has returned after evicting a chunk
C21_Witness ==
    /\ acPc = "idle"
    /\ evicted # {}
    /\ audio_buffer # <<>>
    /\ audio_buffer[Len(audio_buffer)] = acChunk

(* C22: the audio callback's update of audio_buffer (append and evict) and
   the worker's test, concatenation and clearing of it each happen while the
   acting thread holds buffer_lock and the other thread is outside its own
   locked block; audio_buffer changes in no other step. *)
C22_BufferTouchedUnderLock ==
    [][LET InBlock(w) == workers[w].pc \in {"locked", "call", "in_cb"}
           CallbackUpdates == acPc = "locked" /\ acPc' = "idle"
           WorkerDrains(w) == workers[w].pc = "locked"
                              /\ workers'[w].pc # "locked"
       IN /\ CallbackUpdates =>
                /\ buffer_lock = -1
                /\ \A w \in 1..Len(workers) : ~InBlock(w)
          /\ \A w \in 1..Len(workers) :
                WorkerDrains(w) =>
                   /\ buffer_lock = w
                   /\ acPc # "locked"
                   /\ \A v \in 1..Len(workers) : v # w => ~InBlock(v)
          /\ audio_buffer' # audio_buffer =>
                \/ CallbackUpdates
                \/ \E w \in 1..Len(workers) : WorkerDrains(w)]_vars

\* the worker has drained chunks under the lock while the audio callback is
\* waiting for the lock with the next chunk
C22_Witness ==
    /\ acPc = "lock"
    /\ \E w \in 1..Len(workers) :
          /\ workers[w].pc = "call"
          /\ workers[w].data # <<>>
          /\ buffer_lock = w

(* C23: for every non-empty input, the first byte of compress's output is the
   number of distinct byte values of the input (256 written as 0), the bytes
   after it are that many 5-byte entries (byte value, 4-byte big-endian
   frequency), one for each byte value of the input. *)
C23_HeaderCountsDistinctBytes ==
    (hPc = "compressed" /\ hArg # <<>>) =>
        LET distinct == Cardinality(SeqSet(hArg))
            Freq(b) == Cardinality({i \in 1..Len(hArg) : hArg[i] = b})
            EntryChar(k) == hCompressed[2 + 5 * k]
            EntryFreq(k) ==
                FromBigEndian(SubSeq(hCompressed, 3 + 5 * k, 6 + 5 * k))
        IN /\ distinct \in 1..256
           /\ Len(hCompressed) >= 1 + 5 * distinct
           /\ hCompressed[1] = distinct % 256
           /\ {EntryChar(k) : k \in 0..(distinct - 1)} = SeqSet(hArg)
           /\ \A k \in 0..(distinct - 1) : EntryFreq(k) = Freq(EntryChar(k))

(* C24: every chunk that receive judges silent (_calculate_energy below the
   threshold 100) has a mean of squared int16 sample values below 100: the
   accumulated chunks tested once more than 10 are held, and the chunk read
   after a silent one to confirm it. *)
C24_JudgedSilentOnlyWhenQuiet ==
    rxRun.ended # "none" =>
        LET RECURSIVE TrueSumSquares(_)
            TrueSumSquares(samples) ==
                IF samples = <<>> THEN 0
                ELSE Head(samples) * Head(samples)
                     + TrueSumSquares(Tail(samples))
            Sound(samples) ==
                LowEnergy(samples) =>
                    TrueSumSquares(samples) < 100 * Len(samples)
        IN \A i \in 11..Len(rxFrames) :
              LET k == rxFrames[i]
              IN /\ Sound(ReadChunk(rxRun.src, k))
                 /\ (LowEnergy(ReadChunk(rxRun.src, k)) /\ k + 1 <= rxReads)
                       => Sound(ReadChunk(rxRun.src, k + 1))

(* C25: in listen mode the callback that processes a drained buffer works on
   that buffer alone: while it runs and after it has returned, it has started
   no receive of its own, so no stream has been opened for blocking reads and
   nothing further has been captured. *)
C25_ListenDecodesDrainedAudio ==
    \A w \in 1..Len(workers) :
        workers[w].mode = "listen" =>
            /\ workers[w].rx = "none"
            /\ \A h \in 1..Len(streams) : streams[h].kind # "blocking"

(* C26: at every moment at most one input stream is open and input_stream
   refers to it, and once cleanup has returned every stream that was opened
   is closed. *)
C26_OneInputStreamReferenced ==
    LET OpenInputs ==
            {h \in 1..Len(streams) :
                /\ streams[h].kind \in {"callback", "blocking"}
                /\ streams[h].state # "closed"}
    IN /\ Cardinality(OpenInputs) <= 1
       /\ \A h \in OpenInputs : input_stream = h
       /\ (mPc = "idle" /\ lastRet = Ret("cleanup", "done")) => OpenInputs = {}

(* C27: a send_data call with encrypt=True that returned True handed the
   modulator the output of CryptoManager.encrypt, and a receive_data call with
   decrypt=True that returned bytes ran CryptoManager.decrypt on the
   demodulator's output, whether or not a key was supplied. *)
C27_EncryptSelectedMeansEncrypted ==
    /\ (/\ pOpts.op = "send"
        /\ pOpts.crypt
        /\ pPc = "idle"
        /\ pResult = Returned("True", <<>>)) =>
          \E i \in 1..Len(pCalls) :
              /\ pCalls[i].stage = "modulate"
              /\ pCalls[i].input[Len(pCalls[i].input)] = "encrypt"
    /\ (/\ pOpts.op = "receive"
        /\ pOpts.crypt
        /\ pPc = "idle"
        /\ pResult.kind = "bytes") =>
          \E i \in 1..Len(pCalls) :
              /\ pCalls[i].stage = "decrypt"
              /\ pCalls[i].input[Len(pCalls[i].input)] = "demodulate"

(* C28: the waveform receive returns is made of every chunk it read, in the
   order read: none is left out, the chunk read to confirm silence included. *)
C28_WaveformHoldsEveryChunkRead ==
    lastRet = Ret("receive", "waveform") =>
        /\ Len(rxFrames) = rxReads
        /\ \A i \in 1..Len(rxFrames) : rxFrames[i] = i

(* C29: at every moment at most one thread is running the _listening_worker
   loop, whatever start_listening and stop_listening calls were made, also
   when a join expired while the worker was inside the callback. *)
C29_AtMostOneWorkerRuns ==
    Cardinality({w \in 1..Len(workers) : workers[w].pc # "done"}) <= 1

(* C30: for every block compress produced with a header, decompress emits as
   many bytes as the frequencies of the block's header add up to, which is
   the length of the input that was compressed. *)
C30_EmitsAsManyAsEncoded ==
    (/\ hPc = "decompressed"
     /\ hArg = hCompressed
     /\ hData # <<>>
     /\ ~_create_header(CounterOf(hData)).raised) =>
        LET header == _extract_header(hArg)
            RECURSIVE SumFreq(_)
            SumFreq(cnt) ==
                IF cnt = <<>> THEN 0 ELSE Head(cnt)[2] + SumFreq(Tail(cnt))
        IN /\ ~header.raised
           /\ SumFreq(header.counter) = Len(hData)
           /\ hResult # NoneVal
           /\ Len(hResult.val) = SumFreq(header.counter)

============================================================================
